---------------------------- MODULE Spec2Model ----------------------------
(***************************************************************************)
(* Key lifecycle and hybrid composition of qbitel-qsgw (crates crypto and  *)
(* types).  Byte strings are symbolic: a value records its length, what    *)
(* produced it and the inputs it was produced from.  The operations of the *)
(* ml-kem, ml-dsa, slh-dsa, x25519-dalek and sha2 crates are modelled by   *)
(* their FIPS 203/204/205, RFC 7748 and FIPS 180-4 contracts; everything   *)
(* around them is translated from the wrappers in src/crypto/src.          *)
(***************************************************************************)
EXTENDS Integers, Sequences, FiniteSets, TLC

VARIABLES
    entropy,    \* number of draws made from the OS entropy source so far
    kp,         \* the key pair object the caller holds
    kpFrom,     \* history: how kp was obtained ("generate", "deserialize")
    genKp,      \* history: the value the most recent generate returned
    art,        \* the encapsulated result or signature the caller holds
    artBy,      \* history: the key pair art was produced on
    artMsg,     \* history: the message art signs (0: not a signature)
    last,       \* history: the most recent call, its arguments and outcome
    wire,       \* the most recent serialized form
    wireOf,     \* history: the object wire is the serialized form of
    osrng,      \* whether the OS entropy source is available
    proc,       \* whether the process is running
    panicStrategy,  \* the build's panic strategy ("unwind" or "abort")
    callerRng,  \* the state of a generator the caller owns
    hist,       \* history: the calls made on kp, oldest first
    heap,       \* the values created so far, each with its owned buffers
    exit,       \* how the scope owning the values ended ("": still open)
    thread,     \* each thread: where it is in the call it makes
    mem         \* the randomness buffers allocated so far, by address

\* The environment of an operation: the entropy source, the process and the
\* caller's own generator.
aux == <<osrng, proc, panicStrategy, callerRng, hist, heap, exit, thread,
        mem>>

vars == <<entropy, kp, kpFrom, genKp, art, artBy, artMsg, last, wire, wireOf,
          aux>>

---------------------------------------------------------------------------
(* Bounds of the model.                                                    *)

MaxDraws == 4
MaxMsg == 2

Messages == 1..MaxMsg

---------------------------------------------------------------------------
(* Symbolic byte strings.                                                  *)

Mk(len, kind, alg, body, parts) ==
    [len |-> len, kind |-> kind, alg |-> alg, body |-> body, parts |-> parts]

\* vec![0u8; n]; n = 0 is Vec::new(), the Default a skipped field is given.
ZeroBytes(n) == Mk(n, "zero", "", <<>>, <<>>)

EmptyBytes == ZeroBytes(0)

\* Bytes of length n that no decoder accepts (out-of-range coefficients).
JunkBytes(n) == Mk(n, "junk", "", <<>>, <<>>)

\* Option<Vec<u8>>
None == [some |-> FALSE, val |-> EmptyBytes]
Some(b) == [some |-> TRUE, val |-> b]

\* CryptoResult<T>
Ok(v) == [ok |-> TRUE, err |-> "", val |-> v, flag |-> FALSE]
Err(kind) == [ok |-> FALSE, err |-> kind, val |-> EmptyBytes, flag |-> FALSE]
\* CryptoResult<bool>
OkBool(b) == [ok |-> TRUE, err |-> "", val |-> EmptyBytes, flag |-> b]

\* The outcome of a call together with the primitive operations it invoked,
\* in order.
Ret(res, trace) == [res |-> res, trace |-> trace]

---------------------------------------------------------------------------
(* Algorithm Catalog (types/src/algorithm.rs).                             *)

MlKemVariants == {"MlKem512", "MlKem768", "MlKem1024"}
MlDsaVariants == {"MlDsa44", "MlDsa65", "MlDsa87"}
SlhDsaVariants == {"Sha2_128s", "Sha2_128f", "Sha2_192s", "Sha2_192f",
                   "Sha2_256s", "Sha2_256f"}

MlKem_key_sizes(v) ==
    CASE v = "MlKem512" -> <<800, 1632>>
      [] v = "MlKem768" -> <<1184, 2400>>
      [] v = "MlKem1024" -> <<1568, 3168>>

MlKem_ciphertext_size(v) ==
    CASE v = "MlKem512" -> 768
      [] v = "MlKem768" -> 1088
      [] v = "MlKem1024" -> 1568

MlDsa_key_sizes(v) ==
    CASE v = "MlDsa44" -> <<1312, 2560>>
      [] v = "MlDsa65" -> <<1952, 4032>>
      [] v = "MlDsa87" -> <<2592, 4896>>

MlDsa_signature_size(v) ==
    CASE v = "MlDsa44" -> 2420
      [] v = "MlDsa65" -> 3309
      [] v = "MlDsa87" -> 4627

SlhDsa_key_sizes(v) ==
    CASE v \in {"Sha2_128s", "Sha2_128f"} -> <<32, 64>>
      [] v \in {"Sha2_192s", "Sha2_192f"} -> <<48, 96>>
      [] v \in {"Sha2_256s", "Sha2_256f"} -> <<64, 128>>

SlhDsa_signature_size(v) ==
    CASE v = "Sha2_128s" -> 7856
      [] v = "Sha2_128f" -> 17088
      [] v = "Sha2_192s" -> 16224
      [] v = "Sha2_192f" -> 35664
      [] v = "Sha2_256s" -> 29792
      [] v = "Sha2_256f" -> 49856

---------------------------------------------------------------------------
(* The ml-kem crate (FIPS 203), as the wrapper uses it.                    *)

\* The 64-byte (d, z) seed: the form DecapsulationKey::to_bytes exports and
\* DecapsulationKey::new_from_slice accepts, the same for all parameter sets.
MlKemSeedLen == 64
\* A shared key is 32 bytes for every parameter set.
MlKemSharedLen == 32

\* Encoded encapsulation-key and ciphertext lengths of FIPS 203, table 3.
EkLen(P) ==
    CASE P = "MlKem512" -> 384 * 2 + 32
      [] P = "MlKem768" -> 384 * 3 + 32
      [] P = "MlKem1024" -> 384 * 4 + 32

CtLen(P) ==
    CASE P = "MlKem512" -> 32 * (10 * 2 + 4)
      [] P = "MlKem768" -> 32 * (10 * 3 + 4)
      [] P = "MlKem1024" -> 32 * (11 * 4 + 5)

\* Kem::generate_keypair_from_rng with the seed the rng returned: (dk, ek).
\* The key's identity is the seed together with the parameter set.
MlKem_generate_keypair(P, seed) ==
    [dk |-> [P |-> P, id |-> seed, bytes |-> Mk(MlKemSeedLen, "seed64", "", <<seed>>, <<>>)],
     ek |-> [P |-> P, id |-> seed, bytes |-> Mk(EkLen(P), "ek", P, <<seed>>, <<>>)]]

\* EncapsulationKey::<P>::new_from_slice: the length and the coefficient
\* range are checked.  A key that is not one a seed expands to gets id 0
\* (the all-zero key) and has no matching decapsulation key.
EncapsulationKey_new_from_slice(P, bytes) ==
    IF bytes.len # EkLen(P) \/ bytes.kind = "junk" THEN Err("InvalidKey")
    ELSE Ok([P |-> P,
             id |-> IF bytes.kind = "ek" /\ bytes.alg = P THEN bytes.body[1] ELSE 0,
             bytes |-> bytes])

\* DecapsulationKey::<P>::new_from_slice: any 64 bytes are a seed.  Bytes
\* that are not a generated seed expand to some other key (id -1).
DecapsulationKey_new_from_slice(P, bytes) ==
    IF bytes.len # MlKemSeedLen THEN Err("InvalidLength")
    ELSE Ok([P |-> P,
             id |-> IF bytes.kind = "seed64" THEN bytes.body[1] ELSE -1,
             bytes |-> bytes])

\* ek.encapsulate_with_rng with the 32 bytes m the rng returned: (ct, ss).
Ek_encapsulate(ek, m) ==
    [ct |-> Mk(CtLen(ek.P), "ct", ek.P, <<ek.id, m>>, <<>>),
     ss |-> Mk(MlKemSharedLen, "ss", ek.P, <<ek.id, m>>, <<>>)]

\* dk.decapsulate_slice: a wrong length is the only error.  A ciphertext of
\* the right length that was not made for this key decapsulates to the
\* implicit-rejection key J(z, ct).
Dk_decapsulate_slice(dk, ct) ==
    IF ct.len # CtLen(dk.P) THEN Err("TryFromSliceError")
    ELSE IF ct.kind = "ct" /\ ct.alg = dk.P /\ ct.body[1] = dk.id
         THEN Ok(Mk(MlKemSharedLen, "ss", dk.P, ct.body, <<>>))
         ELSE Ok(Mk(MlKemSharedLen, "rej", dk.P, <<dk.id>>, <<ct>>))

---------------------------------------------------------------------------
(* ML-KEM key lifecycle (crypto/src/mlkem.rs).                             *)

MlKemKeyPair(variant, public_key, secret_key) ==
    [family |-> "MlKem", variant |-> variant,
     public_key |-> public_key, secret_key |-> secret_key]

MlKemEncapsulated(ciphertext, shared_secret) ==
    [type |-> "MlKemEncapsulated", ciphertext |-> ciphertext,
     shared_secret |-> shared_secret]

\* A slip: the two byte vectors passed in the wrong order.
MlKem_make_keypair_swapped(variant, public_key, secret_key) ==
    MlKemKeyPair(variant, secret_key, public_key)

MlKem_make_keypair(variant, public_key, secret_key) ==
    MlKemKeyPair(variant, public_key, secret_key)

\* generate: one draw from PqcRng (seed), then ek.to_bytes / dk.to_bytes.
MlKemKeyPair_generate(variant, seed) ==
    LET pair == MlKem_generate_keypair(variant, seed)
    IN  Ret(Ok(MlKem_make_keypair(variant, pair.ek.bytes, pair.dk.bytes)),
            <<"rng", "ml_kem::generate_keypair">>)

\* A slip: a public key that does not parse reported as InvalidKeyMaterial.
MlKemKeyPair_encapsulate_wrong_kind(self, m) ==
    LET ek == EncapsulationKey_new_from_slice(self.variant, self.public_key)
    IN  IF ~ek.ok THEN Ret(Err("InvalidKeyMaterial"), <<"ek_new_from_slice">>)
        ELSE LET r == Ek_encapsulate(ek.val, m)
             IN  Ret(Ok(MlKemEncapsulated(r.ct, r.ss)),
                     <<"ek_new_from_slice", "rng", "ml_kem::encapsulate">>)

\* encapsulate: parse the public key for self.variant, then encapsulate with
\* one draw m.
MlKemKeyPair_encapsulate(self, m) ==
    LET ek == EncapsulationKey_new_from_slice(self.variant, self.public_key)
    IN  IF ~ek.ok THEN Ret(Err("Encapsulation"), <<"ek_new_from_slice">>)
        ELSE LET r == Ek_encapsulate(ek.val, m)
             IN  Ret(Ok(MlKemEncapsulated(r.ct, r.ss)),
                     <<"ek_new_from_slice", "rng", "ml_kem::encapsulate">>)

\* A slip: the MlKem1024 arm of the match copied from the MlKem768 arm.
MlKemKeyPair_decapsulate_arm768(self, ciphertext) ==
    LET P == IF self.variant = "MlKem1024" THEN "MlKem768" ELSE self.variant
        dk == DecapsulationKey_new_from_slice(P, self.secret_key)
    IN  IF ~dk.ok THEN Ret(Err("Decapsulation"), <<"dk_new_from_slice">>)
        ELSE LET ss == Dk_decapsulate_slice(dk.val, ciphertext)
             IN  IF ~ss.ok
                 THEN Ret(Err("Decapsulation"),
                          <<"dk_new_from_slice", "ml_kem::decapsulate">>)
                 ELSE Ret(Ok(ss.val),
                          <<"dk_new_from_slice", "ml_kem::decapsulate">>)

\* A slip: a fresh random key returned for a ciphertext that does not match.
MlKemKeyPair_decapsulate_random_rejection(self, ciphertext) ==
    LET dk == DecapsulationKey_new_from_slice(self.variant, self.secret_key)
    IN  IF ~dk.ok THEN Ret(Err("Decapsulation"), <<"dk_new_from_slice">>)
        ELSE LET ss == Dk_decapsulate_slice(dk.val, ciphertext)
             IN  IF ~ss.ok
                 THEN Ret(Err("Decapsulation"),
                          <<"dk_new_from_slice", "ml_kem::decapsulate">>)
                 ELSE IF ss.val.kind = "rej"
                 THEN Ret(Ok(Mk(32, "rand", "", <<entropy + 1>>, <<>>)),
                          <<"dk_new_from_slice", "ml_kem::decapsulate", "rng">>)
                 ELSE Ret(Ok(ss.val),
                          <<"dk_new_from_slice", "ml_kem::decapsulate">>)

\* decapsulate: parse the secret key for self.variant, then decapsulate.
MlKemKeyPair_decapsulate(self, ciphertext) ==
    LET dk == DecapsulationKey_new_from_slice(self.variant, self.secret_key)
    IN  IF ~dk.ok THEN Ret(Err("Decapsulation"), <<"dk_new_from_slice">>)
        ELSE LET ss == Dk_decapsulate_slice(dk.val, ciphertext)
             IN  IF ~ss.ok
                 THEN Ret(Err("Decapsulation"),
                          <<"dk_new_from_slice", "ml_kem::decapsulate">>)
                 ELSE Ret(Ok(ss.val),
                          <<"dk_new_from_slice", "ml_kem::decapsulate">>)

---------------------------------------------------------------------------
(* getrandom, x25519-dalek (RFC 7748) and sha2 (FIPS 180-4).               *)

\* getrandom::fill on an n-byte buffer: the bytes of draw number nonce.
RandomBytes(n, nonce) == Mk(n, "rand", "", <<nonce>>, <<>>)

\* StaticSecret::from([u8; 32]): the scalar the bytes clamp to.  Bytes that
\* are not a draw of the entropy source are some other scalar (-1).
StaticSecret_from(bytes) ==
    [scalar |-> IF bytes.kind = "rand" THEN bytes.body[1] ELSE -1]

\* PublicKey::from(&StaticSecret): the point scalar * G, as 32 bytes.
PublicKey_from_secret(secret) ==
    Mk(32, "x25519_pk", "", <<secret.scalar>>, <<>>)

\* secret.diffie_hellman(&public): a * (b * G) = b * (a * G); the all-zero
\* point gives the all-zero output whatever the scalar.
diffie_hellman(secret, public) ==
    CASE public.kind = "x25519_pk" ->
            LET a == secret.scalar
                b == public.body[1]
            IN  Mk(32, "x25519_dh", "",
                   <<IF a <= b THEN a ELSE b, IF a <= b THEN b ELSE a>>, <<>>)
      [] public.kind = "zero" -> ZeroBytes(32)
      [] OTHER -> Mk(32, "x25519_dh", "", <<secret.scalar>>, <<public>>)

\* Sha256 over the updates fed to the hasher, in order: 32 bytes.
Sha256(updates) == Mk(32, "sha256", "", <<>>, updates)

\* b"quantun-hybrid-kem-v1"
DomainTag == Mk(21, "ascii", "quantun-hybrid-kem-v1", <<>>, <<>>)

---------------------------------------------------------------------------
(* Hybrid composer (crypto/src/hybrid.rs).                                 *)

HybridKemKeyPair(variant, classical_public, classical_secret, pqc_keypair) ==
    [family |-> "Hybrid", variant |-> variant,
     classical_public |-> classical_public,
     classical_secret |-> classical_secret,
     pqc_keypair |-> pqc_keypair]

HybridEncapsulated(classical_public, pqc_ciphertext, shared_secret) ==
    [type |-> "HybridEncapsulated", classical_public |-> classical_public,
     pqc_ciphertext |-> pqc_ciphertext, shared_secret |-> shared_secret]

\* A slip: the domain-separation tag left out.
combine_secrets_untagged(classical, pqc) == Sha256(<<classical, pqc>>)

combine_secrets(classical, pqc) == Sha256(<<DomainTag, classical, pqc>>)

\* generate: key_bytes is draw n1, the ML-KEM-768 seed is draw n2.
HybridKemKeyPair_generate(n1, n2) ==
    LET key_bytes == RandomBytes(32, n1)
        classical_secret == StaticSecret_from(key_bytes)
        classical_public == PublicKey_from_secret(classical_secret)
        pqc == MlKemKeyPair_generate("MlKem768", n2)
    IN  IF ~pqc.res.ok THEN Ret(pqc.res, <<"rng", "x25519_keygen">> \o pqc.trace)
        ELSE Ret(Ok(HybridKemKeyPair("X25519MlKem768", classical_public,
                                     Some(key_bytes), pqc.res.val)),
                 <<"rng", "x25519_keygen">> \o pqc.trace)

\* A slip: one ephemeral key for every call.
HybridKemKeyPair_encapsulate_static_ephemeral(self, n1, n2) ==
    LET ephemeral_secret == StaticSecret_from(RandomBytes(32, 0))
        ephemeral_public == PublicKey_from_secret(ephemeral_secret)
    IN  IF self.classical_public.len # 32
        THEN Ret(Err("InvalidKeyMaterial"), <<"rng", "x25519_keygen">>)
        ELSE
        LET classical_shared == diffie_hellman(ephemeral_secret, self.classical_public)
            pqc_enc == MlKemKeyPair_encapsulate(self.pqc_keypair, n2)
            trace == <<"rng", "x25519_keygen", "x25519_dh">> \o pqc_enc.trace
        IN  IF ~pqc_enc.res.ok THEN Ret(pqc_enc.res, trace)
            ELSE Ret(Ok(HybridEncapsulated(
                            ephemeral_public,
                            pqc_enc.res.val.ciphertext,
                            combine_secrets(classical_shared,
                                            pqc_enc.res.val.shared_secret))),
                     trace \o <<"sha256">>)

\* A slip: encapsulate refusing a key pair without its classical secret.
HybridKemKeyPair_encapsulate_needs_secret(self, n1, n2) ==
    LET ephemeral_secret == StaticSecret_from(RandomBytes(32, n1))
        ephemeral_public == PublicKey_from_secret(ephemeral_secret)
    IN  IF ~self.classical_secret.some \/ self.classical_public.len # 32
        THEN Ret(Err("InvalidKeyMaterial"), <<"rng", "x25519_keygen">>)
        ELSE
        LET classical_shared == diffie_hellman(ephemeral_secret, self.classical_public)
            pqc_enc == MlKemKeyPair_encapsulate(self.pqc_keypair, n2)
            trace == <<"rng", "x25519_keygen", "x25519_dh">> \o pqc_enc.trace
        IN  IF ~pqc_enc.res.ok THEN Ret(pqc_enc.res, trace)
            ELSE Ret(Ok(HybridEncapsulated(
                            ephemeral_public,
                            pqc_enc.res.val.ciphertext,
                            combine_secrets(classical_shared,
                                            pqc_enc.res.val.shared_secret))),
                     trace \o <<"sha256">>)

\* encapsulate: ephemeral_bytes is draw n1, the ML-KEM message is draw n2.
HybridKemKeyPair_encapsulate(self, n1, n2) ==
    LET ephemeral_secret == StaticSecret_from(RandomBytes(32, n1))
        ephemeral_public == PublicKey_from_secret(ephemeral_secret)
    IN  IF self.classical_public.len # 32
        THEN Ret(Err("InvalidKeyMaterial"), <<"rng", "x25519_keygen">>)
        ELSE
        LET classical_shared == diffie_hellman(ephemeral_secret, self.classical_public)
            pqc_enc == MlKemKeyPair_encapsulate(self.pqc_keypair, n2)
            trace == <<"rng", "x25519_keygen", "x25519_dh">> \o pqc_enc.trace
        IN  IF ~pqc_enc.res.ok THEN Ret(pqc_enc.res, trace)
            ELSE Ret(Ok(HybridEncapsulated(
                            ephemeral_public,
                            pqc_enc.res.val.ciphertext,
                            combine_secrets(classical_shared,
                                            pqc_enc.res.val.shared_secret))),
                     trace \o <<"sha256">>)

\* A slip: the two secrets handed to the KDF in the other order.
HybridKemKeyPair_decapsulate_swapped(self, ephemeral_public_bytes, pqc_ciphertext) ==
    IF ~self.classical_secret.some THEN Ret(Err("InvalidKeyMaterial"), <<>>)
    ELSE IF self.classical_secret.val.len # 32
    THEN Ret(Err("InvalidKeyMaterial"), <<>>)
    ELSE IF ephemeral_public_bytes.len # 32
    THEN Ret(Err("InvalidKeyMaterial"), <<>>)
    ELSE
    LET classical_secret == StaticSecret_from(self.classical_secret.val)
        classical_shared == diffie_hellman(classical_secret, ephemeral_public_bytes)
        pqc_shared == MlKemKeyPair_decapsulate(self.pqc_keypair, pqc_ciphertext)
        trace == <<"x25519_dh">> \o pqc_shared.trace
    IN  IF ~pqc_shared.res.ok THEN Ret(pqc_shared.res, trace)
        ELSE Ret(Ok(combine_secrets(pqc_shared.res.val, classical_shared)),
                 trace \o <<"sha256">>)

\* A slip: the ML-KEM decapsulation done first, the classical secret looked
\* at only afterwards.
HybridKemKeyPair_decapsulate_pqc_first(self, ephemeral_public_bytes, pqc_ciphertext) ==
    LET pqc_shared == MlKemKeyPair_decapsulate(self.pqc_keypair, pqc_ciphertext)
    IN  IF ~pqc_shared.res.ok THEN Ret(pqc_shared.res, pqc_shared.trace)
        ELSE IF ~self.classical_secret.some
        THEN Ret(Err("InvalidKeyMaterial"), pqc_shared.trace)
        ELSE IF self.classical_secret.val.len # 32 \/ ephemeral_public_bytes.len # 32
        THEN Ret(Err("InvalidKeyMaterial"), pqc_shared.trace)
        ELSE Ret(Ok(combine_secrets(
                        diffie_hellman(StaticSecret_from(self.classical_secret.val),
                                       ephemeral_public_bytes),
                        pqc_shared.res.val)),
                 pqc_shared.trace \o <<"x25519_dh", "sha256">>)

\* A slip: without a usable classical secret, the ML-KEM shared secret
\* alone returned.
HybridKemKeyPair_decapsulate_pqc_only(self, ephemeral_public_bytes, pqc_ciphertext) ==
    LET pqc_shared == MlKemKeyPair_decapsulate(self.pqc_keypair, pqc_ciphertext)
    IN  IF ~self.classical_secret.some \/ self.classical_secret.val.len # 32
        THEN pqc_shared
        ELSE IF ephemeral_public_bytes.len # 32
        THEN Ret(Err("InvalidKeyMaterial"), <<>>)
        ELSE
        LET classical_secret == StaticSecret_from(self.classical_secret.val)
            classical_shared == diffie_hellman(classical_secret, ephemeral_public_bytes)
            trace == <<"x25519_dh">> \o pqc_shared.trace
        IN  IF ~pqc_shared.res.ok THEN Ret(pqc_shared.res, trace)
            ELSE Ret(Ok(combine_secrets(classical_shared, pqc_shared.res.val)),
                     trace \o <<"sha256">>)

\* decapsulate: the secret's presence, its length, the ephemeral key's
\* length, then X25519, ML-KEM and the KDF.
HybridKemKeyPair_decapsulate(self, ephemeral_public_bytes, pqc_ciphertext) ==
    IF ~self.classical_secret.some THEN Ret(Err("InvalidKeyMaterial"), <<>>)
    ELSE IF self.classical_secret.val.len # 32
    THEN Ret(Err("InvalidKeyMaterial"), <<>>)
    ELSE IF ephemeral_public_bytes.len # 32
    THEN Ret(Err("InvalidKeyMaterial"), <<>>)
    ELSE
    LET classical_secret == StaticSecret_from(self.classical_secret.val)
        classical_shared == diffie_hellman(classical_secret, ephemeral_public_bytes)
        pqc_shared == MlKemKeyPair_decapsulate(self.pqc_keypair, pqc_ciphertext)
        trace == <<"x25519_dh">> \o pqc_shared.trace
    IN  IF ~pqc_shared.res.ok THEN Ret(pqc_shared.res, trace)
        ELSE Ret(Ok(combine_secrets(classical_shared, pqc_shared.res.val)),
                 trace \o <<"sha256">>)

---------------------------------------------------------------------------
(* The ml-dsa crate (FIPS 204), as the wrapper uses it.                    *)

MlDsaSeedLen == 32

\* k, l, the bits of a z coefficient, omega and the c~ length (FIPS 204,
\* table 1).
MlDsaParams(P) ==
    CASE P = "MlDsa44" -> [k |-> 4, l |-> 4, zbits |-> 18, omega |-> 80, ctilde |-> 32]
      [] P = "MlDsa65" -> [k |-> 6, l |-> 5, zbits |-> 20, omega |-> 55, ctilde |-> 48]
      [] P = "MlDsa87" -> [k |-> 8, l |-> 7, zbits |-> 20, omega |-> 75, ctilde |-> 64]

\* Encoded verifying-key, expanded signing-key and signature lengths.
VkLen(P) == 32 + 320 * MlDsaParams(P).k

SigLen(P) ==
    LET q == MlDsaParams(P)
    IN  q.ctilde + q.l * 32 * q.zbits + q.omega + q.k

ExpandedSkLen(P) == MlDsa_key_sizes(P)[2]

\* P::from_seed(&seed) and SigningKey::<P>::from_seed(&seed): the key pair a
\* 32-byte seed expands to.  Bytes that are not a draw are some other key.
MlDsa_from_seed(P, seed) ==
    LET id == IF seed.kind = "rand" THEN seed.body[1] ELSE -1
    IN  [P |-> P, id |-> id, seed |-> seed,
         vk |-> Mk(VkLen(P), "mldsa_vk", P, <<id>>, <<>>),
         expanded |-> Mk(ExpandedSkLen(P), "mldsa_sk", P, <<id>>, <<>>)]

\* sk.sign(message).encode(): deterministic in the key and the message.
MlDsa_sign(sk, message) ==
    Mk(SigLen(sk.P), "mldsa_sig", sk.P, <<sk.id, message>>, <<>>)

\* VerifyingKey::<P>::decode of an array of the encoded size: no error.
MlDsa_vk_decode(P, bytes) ==
    [P |-> P,
     id |-> IF bytes.kind = "mldsa_vk" /\ bytes.alg = P THEN bytes.body[1] ELSE -2]

\* Signature::<P>::try_from: the length, the hint encoding and the norm of z
\* are checked (all-zero bytes decode to z = gamma1, out of range).
MlDsa_sig_try_from(P, bytes) ==
    IF bytes.len # SigLen(P) \/ bytes.kind \in {"junk", "zero"}
    THEN Err("signature::Error")
    ELSE Ok(bytes)

\* vk.verify(message, &sig)
MlDsa_vk_verify(vk, message, sig) ==
    /\ sig.kind = "mldsa_sig"
    /\ sig.alg = vk.P
    /\ sig.body = <<vk.id, message>>

---------------------------------------------------------------------------
(* ML-DSA key lifecycle (crypto/src/mldsa.rs).                             *)

MlDsaKeyPair(variant, public_key, secret_key) ==
    [family |-> "MlDsa", variant |-> variant,
     public_key |-> public_key, secret_key |-> secret_key]

MlDsaSignature(signature, variant) ==
    [type |-> "MlDsaSignature", signature |-> signature, variant |-> variant]

\* A slip: the expanded signing key stored instead of the seed.
MlDsa_make_keypair_expanded(variant, pair) ==
    MlDsaKeyPair(variant, pair.vk, pair.expanded)

\* make_keypair: the encoded verifying key and kp.to_seed().
MlDsa_make_keypair(variant, pair) ==
    MlDsaKeyPair(variant, pair.vk, pair.seed)

\* generate: the seed is one getrandom draw, expanded for the variant.
MlDsaKeyPair_generate(variant, nonce) ==
    LET seed == RandomBytes(MlDsaSeedLen, nonce)
    IN  Ret(Ok(MlDsa_make_keypair(variant, MlDsa_from_seed(variant, seed))),
            <<"rng", "ml_dsa::from_seed">>)

\* A slip: every signature labelled MlDsa44.
sign_impl_fixed_label(P, seed_bytes, message, variant) ==
    IF seed_bytes.len # MlDsaSeedLen THEN Ret(Err("Signing"), <<>>)
    ELSE LET sk == MlDsa_from_seed(P, seed_bytes)
         IN  Ret(Ok(MlDsaSignature(MlDsa_sign(sk, message), "MlDsa44")),
                 <<"ml_dsa::from_seed", "ml_dsa::sign">>)

\* A slip: a seed of the wrong length zero-padded instead of rejected.
sign_impl_padding(P, seed_bytes, message, variant) ==
    LET sk == MlDsa_from_seed(P, IF seed_bytes.len = MlDsaSeedLen THEN seed_bytes
                                 ELSE ZeroBytes(MlDsaSeedLen))
    IN  Ret(Ok(MlDsaSignature(MlDsa_sign(sk, message), variant)),
            <<"ml_dsa::from_seed", "ml_dsa::sign">>)

sign_impl(P, seed_bytes, message, variant) ==
    IF seed_bytes.len # MlDsaSeedLen THEN Ret(Err("Signing"), <<>>)
    ELSE LET sk == MlDsa_from_seed(P, seed_bytes)
         IN  Ret(Ok(MlDsaSignature(MlDsa_sign(sk, message), variant)),
                 <<"ml_dsa::from_seed", "ml_dsa::sign">>)

MlDsaKeyPair_sign(self, message) ==
    sign_impl(self.variant, self.secret_key, message, self.variant)

\* A slip: a signature that does not match reported as an error.
verify_impl_mismatch_is_error(P, vk_bytes, message, sig_bytes) ==
    IF vk_bytes.len # VkLen(P) THEN Ret(Err("Verification"), <<"vk_try_into">>)
    ELSE LET vk == MlDsa_vk_decode(P, vk_bytes)
             sig == MlDsa_sig_try_from(P, sig_bytes)
         IN  IF ~sig.ok
             THEN Ret(Err("Verification"), <<"vk_try_into", "vk_decode", "sig_try_from">>)
             ELSE IF MlDsa_vk_verify(vk, message, sig.val)
             THEN Ret(OkBool(TRUE),
                      <<"vk_try_into", "vk_decode", "sig_try_from", "ml_dsa::verify">>)
             ELSE Ret(Err("Verification"),
                      <<"vk_try_into", "vk_decode", "sig_try_from", "ml_dsa::verify">>)

verify_impl(P, vk_bytes, message, sig_bytes) ==
    IF vk_bytes.len # VkLen(P) THEN Ret(Err("Verification"), <<"vk_try_into">>)
    ELSE LET vk == MlDsa_vk_decode(P, vk_bytes)
             sig == MlDsa_sig_try_from(P, sig_bytes)
         IN  IF ~sig.ok
             THEN Ret(Err("Verification"), <<"vk_try_into", "vk_decode", "sig_try_from">>)
             ELSE Ret(OkBool(MlDsa_vk_verify(vk, message, sig.val)),
                      <<"vk_try_into", "vk_decode", "sig_try_from", "ml_dsa::verify">>)

\* A slip: the variant comparison left out.
MlDsaKeyPair_verify_unchecked(self, message, sig) ==
    verify_impl(self.variant, self.public_key, message, sig.signature)

MlDsaKeyPair_verify(self, message, sig) ==
    IF sig.variant # self.variant THEN Ret(Err("Verification"), <<>>)
    ELSE verify_impl(self.variant, self.public_key, message, sig.signature)

---------------------------------------------------------------------------
(* The slh-dsa crate (FIPS 205), as the wrapper uses it.                   *)

\* n, h, d, a, k and len of each parameter set (FIPS 205, table 2).
SlhDsaParams(P) ==
    CASE P = "Sha2_128s" -> [n |-> 16, h |-> 63, d |-> 7, a |-> 12, k |-> 14, len |-> 35]
      [] P = "Sha2_128f" -> [n |-> 16, h |-> 66, d |-> 22, a |-> 6, k |-> 33, len |-> 35]
      [] P = "Sha2_192s" -> [n |-> 24, h |-> 63, d |-> 7, a |-> 14, k |-> 17, len |-> 51]
      [] P = "Sha2_192f" -> [n |-> 24, h |-> 66, d |-> 22, a |-> 8, k |-> 33, len |-> 51]
      [] P = "Sha2_256s" -> [n |-> 32, h |-> 64, d |-> 8, a |-> 14, k |-> 22, len |-> 67]
      [] P = "Sha2_256f" -> [n |-> 32, h |-> 68, d |-> 17, a |-> 9, k |-> 35, len |-> 67]

SlhVkLen(P) == 2 * SlhDsaParams(P).n
SlhSkLen(P) == 4 * SlhDsaParams(P).n

SlhSigLen(P) ==
    LET q == SlhDsaParams(P)
    IN  (1 + q.k * (1 + q.a) + q.h + q.d * q.len) * q.n

\* SigningKey::<P>::new(rng) with the draw the rng returned.
SlhDsa_SigningKey_new(P, nonce) ==
    [P |-> P, id |-> nonce,
     bytes |-> Mk(SlhSkLen(P), "slh_sk", P, <<nonce>>, <<>>),
     vk |-> Mk(SlhVkLen(P), "slh_vk", P, <<nonce>>, <<>>)]

\* SigningKey::<P>::try_from(bytes): the length is checked.
SlhDsa_SigningKey_try_from(P, bytes) ==
    IF bytes.len # SlhSkLen(P) THEN Err("signature::Error")
    ELSE Ok([P |-> P,
             id |-> IF bytes.kind = "slh_sk" /\ bytes.alg = P THEN bytes.body[1] ELSE -1,
             bytes |-> bytes])

\* sk.try_sign_with_rng(rng, message).to_vec(): randomized by one draw.
SlhDsa_sign(sk, message, nonce) ==
    Mk(SlhSigLen(sk.P), "slh_sig", sk.P, <<sk.id, message, nonce>>, <<>>)

\* VerifyingKey::<P>::try_from(bytes): the length is checked.
SlhDsa_VerifyingKey_try_from(P, bytes) ==
    IF bytes.len # SlhVkLen(P) THEN Err("signature::Error")
    ELSE Ok([P |-> P,
             id |-> IF bytes.kind = "slh_vk" /\ bytes.alg = P THEN bytes.body[1] ELSE -2])

\* Signature::<P>::try_from(bytes): the length is checked.
SlhDsa_Signature_try_from(P, bytes) ==
    IF bytes.len # SlhSigLen(P) THEN Err("signature::Error") ELSE Ok(bytes)

\* vk.verify(message, &sig)
SlhDsa_vk_verify(vk, message, sig) ==
    /\ sig.kind = "slh_sig"
    /\ sig.alg = vk.P
    /\ Len(sig.body) = 3
    /\ sig.body[1] = vk.id
    /\ sig.body[2] = message

---------------------------------------------------------------------------
(* SLH-DSA key lifecycle (crypto/src/slhdsa.rs).                           *)

SlhDsaKeyPair(variant, public_key, secret_key) ==
    [family |-> "SlhDsa", variant |-> variant,
     public_key |-> public_key, secret_key |-> secret_key]

SlhDsaSignature(signature, variant) ==
    [type |-> "SlhDsaSignature", signature |-> signature, variant |-> variant]

generate_typed(P, variant, nonce) ==
    LET sk == SlhDsa_SigningKey_new(P, nonce)
    IN  Ret(Ok(SlhDsaKeyPair(variant, sk.vk, sk.bytes)),
            <<"rng", "slh_dsa::SigningKey::new">>)

SlhDsaKeyPair_generate(variant, nonce) == generate_typed(variant, variant, nonce)

\* A slip: the signature cut to the length of the smallest parameter set.
sign_typed_truncated(P, sk_bytes, message, variant, nonce) ==
    LET sk == SlhDsa_SigningKey_try_from(P, sk_bytes)
    IN  IF ~sk.ok THEN Ret(Err("Signing"), <<"sk_try_from">>)
        ELSE Ret(Ok(SlhDsaSignature(
                        [SlhDsa_sign(sk.val, message, nonce)
                            EXCEPT !.len = SlhSigLen("Sha2_128s")],
                        variant)),
                 <<"sk_try_from", "rng", "slh_dsa::sign">>)

sign_typed(P, sk_bytes, message, variant, nonce) ==
    LET sk == SlhDsa_SigningKey_try_from(P, sk_bytes)
    IN  IF ~sk.ok THEN Ret(Err("Signing"), <<"sk_try_from">>)
        ELSE Ret(Ok(SlhDsaSignature(SlhDsa_sign(sk.val, message, nonce), variant)),
                 <<"sk_try_from", "rng", "slh_dsa::sign">>)

SlhDsaKeyPair_sign(self, message, nonce) ==
    sign_typed(self.variant, self.secret_key, message, self.variant, nonce)

\* A slip: signature bytes that do not decode reported as a signature that
\* does not match.
verify_typed_bad_signature_is_false(P, vk_bytes, message, sig_bytes) ==
    LET vk == SlhDsa_VerifyingKey_try_from(P, vk_bytes)
    IN  IF ~vk.ok THEN Ret(Err("Verification"), <<"vk_try_from">>)
        ELSE LET sig == SlhDsa_Signature_try_from(P, sig_bytes)
             IN  IF ~sig.ok
                 THEN Ret(OkBool(FALSE), <<"vk_try_from", "sig_try_from">>)
                 ELSE Ret(OkBool(SlhDsa_vk_verify(vk.val, message, sig.val)),
                          <<"vk_try_from", "sig_try_from", "slh_dsa::verify">>)

verify_typed(P, vk_bytes, message, sig_bytes) ==
    LET vk == SlhDsa_VerifyingKey_try_from(P, vk_bytes)
    IN  IF ~vk.ok THEN Ret(Err("Verification"), <<"vk_try_from">>)
        ELSE LET sig == SlhDsa_Signature_try_from(P, sig_bytes)
             IN  IF ~sig.ok
                 THEN Ret(Err("Verification"), <<"vk_try_from", "sig_try_from">>)
                 ELSE Ret(OkBool(SlhDsa_vk_verify(vk.val, message, sig.val)),
                          <<"vk_try_from", "sig_try_from", "slh_dsa::verify">>)

SlhDsaKeyPair_verify(self, message, sig) ==
    IF sig.variant # self.variant THEN Ret(Err("Verification"), <<>>)
    ELSE verify_typed(self.variant, self.public_key, message, sig.signature)

---------------------------------------------------------------------------
(* Serialization (the serde derives; #[serde(skip)] fields are left out    *)
(* and are given their Default when a value is deserialized).              *)

\* A slip: #[serde(skip)] missing on secret_key.
Serialize_KeyPair_with_secret(o) ==
    [type |-> o.family, variant |-> o.variant, public_key |-> o.public_key,
     secret_key |-> o.secret_key]

Serialize_KeyPair(o) ==
    [type |-> o.family, variant |-> o.variant, public_key |-> o.public_key]

Serialize_HybridKemKeyPair(o) ==
    [type |-> "Hybrid", variant |-> o.variant,
     classical_public |-> o.classical_public,
     pqc_keypair |-> Serialize_KeyPair(o.pqc_keypair)]

Serialize_MlKemEncapsulated(o) ==
    [type |-> "MlKemEncapsulated", ciphertext |-> o.ciphertext]

Serialize_HybridEncapsulated(o) ==
    [type |-> "HybridEncapsulated", classical_public |-> o.classical_public,
     pqc_ciphertext |-> o.pqc_ciphertext]

Serialize_Signature(o) ==
    [type |-> o.type, signature |-> o.signature, variant |-> o.variant]

Serialize(o) ==
    IF "family" \in DOMAIN o
    THEN IF o.family = "Hybrid" THEN Serialize_HybridKemKeyPair(o)
         ELSE Serialize_KeyPair(o)
    ELSE CASE o.type = "MlKemEncapsulated" -> Serialize_MlKemEncapsulated(o)
           [] o.type = "HybridEncapsulated" -> Serialize_HybridEncapsulated(o)
           [] OTHER -> Serialize_Signature(o)

Deserialize_KeyPair(w) ==
    [family |-> w.type, variant |-> w.variant, public_key |-> w.public_key,
     secret_key |-> EmptyBytes]

Deserialize_HybridKemKeyPair(w) ==
    HybridKemKeyPair(w.variant, w.classical_public, None,
                     Deserialize_KeyPair(w.pqc_keypair))

Deserialize(w) ==
    IF w.type = "Hybrid" THEN Deserialize_HybridKemKeyPair(w)
    ELSE Deserialize_KeyPair(w)

---------------------------------------------------------------------------
(* The caller's state.                                                     *)

NoKeyPair == [family |-> "None"]
NoArtifact == [type |-> "None"]
NoWire == [type |-> "None"]

KeyPairFamilies == {"MlKem", "MlDsa", "SlhDsa", "Hybrid"}

\* A record of one call: the operation, the object it was called on and how
\* that object was obtained, the arguments (unused ones are empty) and what
\* the call returned.
Call(op, self, msg, arg1, arg2, sigv, ret) ==
    [op |-> op, self |-> self, from |-> kpFrom, msg |-> msg, arg1 |-> arg1,
     arg2 |-> arg2, sigv |-> sigv, res |-> ret.res, trace |-> ret.trace]

NoCall ==
    [op |-> "none", self |-> NoKeyPair, from |-> "none", msg |-> 0,
     arg1 |-> EmptyBytes, arg2 |-> EmptyBytes, sigv |-> "",
     res |-> Err(""), trace |-> <<>>]

\* A call whose result is an object keeps the object in kp or art; the
\* record keeps the outcome only.
Outcome(ret) == IF ret.res.ok THEN Ret(Ok(EmptyBytes), ret.trace) ELSE ret

\* The entropy source works, the process runs and the caller's generator is
\* in its initial state.
AuxInit ==
    /\ osrng = "ok"
    /\ proc = "running"
    /\ panicStrategy = "unwind"
    /\ callerRng = 0
    /\ hist = <<>>
    /\ heap = <<>>
    /\ exit = ""
    /\ thread = <<>>
    /\ mem = <<>>

Init ==
    /\ AuxInit
    /\ entropy = 0
    /\ kp = NoKeyPair
    /\ kpFrom = "none"
    /\ genKp = NoKeyPair
    /\ art = NoArtifact
    /\ artBy = NoKeyPair
    /\ artMsg = 0
    /\ last = NoCall
    /\ wire = NoWire
    /\ wireOf = NoKeyPair

\* The value of the k-th next draw from the OS entropy source: every draw
\* is fresh (a CSPRNG repeats a value with negligible probability).
Draw(k) == entropy + k

\* The number of draws a call made from the entropy source.
Draws(trace) == Cardinality({i \in DOMAIN trace : trace[i] = "rng"})

\* A generate call: the caller keeps the key pair it returns and starts
\* over with it, dropping what it held of the previous key pair.
Generated(op, v, ret) ==
    /\ kp' = ret.res.val
    /\ kpFrom' = "generate"
    /\ genKp' = ret.res.val
    /\ last' = Call(op, NoKeyPair, 0, EmptyBytes, EmptyBytes, v, Outcome(ret))
    /\ entropy' = entropy + Draws(ret.trace)
    /\ art' = NoArtifact
    /\ artBy' = NoKeyPair
    /\ artMsg' = 0
    /\ wire' = NoWire
    /\ wireOf' = NoKeyPair
    /\ UNCHANGED aux

\* A call on kp that returns an encapsulated result or a signature: the
\* caller keeps it when the call succeeds.
Produced(op, msg, ret) ==
    /\ last' = Call(op, kp, msg, EmptyBytes, EmptyBytes, "", Outcome(ret))
    /\ entropy' = entropy + Draws(ret.trace)
    /\ IF ret.res.ok
       THEN art' = ret.res.val /\ artBy' = kp /\ artMsg' = msg
       ELSE UNCHANGED <<art, artBy, artMsg>>
    /\ UNCHANGED <<kp, kpFrom, genKp, wire, wireOf, aux>>

\* A call on kp that returns bytes or a boolean and changes nothing.
Returned(op, msg, arg1, arg2, sigv, ret) ==
    /\ last' = Call(op, kp, msg, arg1, arg2, sigv, ret)
    /\ UNCHANGED <<entropy, kp, kpFrom, genKp, art, artBy, artMsg, wire, wireOf, aux>>

---------------------------------------------------------------------------
(* ML-KEM operations.                                                      *)

MlKemGenerate ==
    /\ entropy + 1 <= MaxDraws
    /\ \E v \in MlKemVariants :
          Generated("MlKem_generate", v, MlKemKeyPair_generate(v, Draw(1)))

MlKemEncapsulate ==
    /\ kp.family = "MlKem"
    /\ entropy + 1 <= MaxDraws
    /\ Produced("MlKem_encapsulate", 0, MlKemKeyPair_encapsulate(kp, Draw(1)))

\* What encapsulate returns on another key pair of the variant (the one of
\* seed 0, with the message 0).
OtherEncapsulated(v) ==
    MlKemKeyPair_encapsulate(MlKemKeyPair_generate(v, 0).res.val, 0).res.val

\* The ciphertexts a caller may pass: the one it holds, one made for another
\* key pair, and zero bytes of wrong and right length.
KemCiphertexts(self) ==
    {ZeroBytes(10), ZeroBytes(MlKem_ciphertext_size(self.variant)),
     OtherEncapsulated(self.variant).ciphertext}
    \cup (IF art.type = "MlKemEncapsulated" THEN {art.ciphertext} ELSE {})

MlKemDecapsulate ==
    /\ kp.family = "MlKem"
    /\ \E ct \in KemCiphertexts(kp) :
          Returned("MlKem_decapsulate", 0, ct, EmptyBytes, "",
                   MlKemKeyPair_decapsulate(kp, ct))

---------------------------------------------------------------------------
(* Hybrid operations.                                                      *)

HybridGenerate ==
    /\ entropy + 2 <= MaxDraws
    /\ Generated("Hybrid_generate", "X25519MlKem768",
                 HybridKemKeyPair_generate(Draw(1), Draw(2)))

HybridEncapsulate ==
    /\ kp.family = "Hybrid"
    /\ entropy + 2 <= MaxDraws
    /\ Produced("Hybrid_encapsulate", 0,
                HybridKemKeyPair_encapsulate(kp, Draw(1), Draw(2)))

\* The ephemeral public keys a caller may pass.
EphemeralKeys ==
    {ZeroBytes(32), ZeroBytes(31)}
    \cup (IF art.type = "HybridEncapsulated" THEN {art.classical_public} ELSE {})

\* The ciphertexts a caller may pass to the hybrid decapsulate.
HybridCiphertexts ==
    {ZeroBytes(10), ZeroBytes(MlKem_ciphertext_size("MlKem768"))}
    \cup (IF art.type = "HybridEncapsulated" THEN {art.pqc_ciphertext} ELSE {})

HybridDecapsulate ==
    /\ kp.family = "Hybrid"
    /\ \E epk \in EphemeralKeys, ct \in HybridCiphertexts :
          Returned("Hybrid_decapsulate", 0, epk, ct, "",
                   HybridKemKeyPair_decapsulate(kp, epk, ct))

\* kp.classical_secret = None (the field is public).
HybridClearSecret ==
    /\ kp.family = "Hybrid"
    /\ kp.classical_secret.some
    /\ kp' = [kp EXCEPT !.classical_secret = None]
    /\ UNCHANGED <<entropy, kpFrom, genKp, art, artBy, artMsg, last, wire, wireOf, aux>>

---------------------------------------------------------------------------
(* Signature operations.                                                   *)

MlDsaGenerate ==
    /\ entropy + 1 <= MaxDraws
    /\ \E v \in MlDsaVariants :
          Generated("MlDsa_generate", v, MlDsaKeyPair_generate(v, Draw(1)))

MlDsaSign ==
    /\ kp.family = "MlDsa"
    /\ \E m \in Messages : Produced("MlDsa_sign", m, MlDsaKeyPair_sign(kp, m))

\* The signatures a caller may pass to verify: the one it holds, the one it
\* holds relabelled with any variant, a signature of message 1 by another key
\* pair (the one of seed 0) of the same variant, zero bytes of each
\* variant's size, and ten zero bytes labelled with the key pair's variant.
MlDsaSignatures(self) ==
    {MlDsaSignature(ZeroBytes(MlDsa_signature_size(v)), v) : v \in MlDsaVariants}
    \cup {MlDsaSignature(ZeroBytes(10), self.variant)}
    \cup {MlDsaKeyPair_sign(MlDsaKeyPair_generate(self.variant, 0).res.val, 1).res.val}
    \cup (IF art.type = "MlDsaSignature"
          THEN {[art EXCEPT !.variant = v] : v \in MlDsaVariants}
          ELSE {})

MlDsaVerify ==
    /\ kp.family = "MlDsa"
    /\ \E m \in Messages, sig \in MlDsaSignatures(kp) :
          Returned("MlDsa_verify", m, sig.signature, EmptyBytes, sig.variant,
                   MlDsaKeyPair_verify(kp, m, sig))

SlhDsaGenerate ==
    /\ entropy + 1 <= MaxDraws
    /\ \E v \in SlhDsaVariants :
          Generated("SlhDsa_generate", v, SlhDsaKeyPair_generate(v, Draw(1)))

SlhDsaSign ==
    /\ kp.family = "SlhDsa"
    /\ entropy + 1 <= MaxDraws
    /\ \E m \in Messages :
          Produced("SlhDsa_sign", m, SlhDsaKeyPair_sign(kp, m, Draw(1)))

SlhDsaSignatures(self) ==
    {SlhDsaSignature(ZeroBytes(SlhDsa_signature_size(v)), v) : v \in SlhDsaVariants}
    \cup {SlhDsaSignature(ZeroBytes(10), self.variant)}
    \cup {SlhDsaKeyPair_sign(SlhDsaKeyPair_generate(self.variant, 0).res.val, 1, 0).res.val}
    \cup (IF art.type = "SlhDsaSignature"
          THEN {[art EXCEPT !.variant = v] : v \in SlhDsaVariants}
          ELSE {})

SlhDsaVerify ==
    /\ kp.family = "SlhDsa"
    /\ \E m \in Messages, sig \in SlhDsaSignatures(kp) :
          Returned("SlhDsa_verify", m, sig.signature, EmptyBytes, sig.variant,
                   SlhDsaKeyPair_verify(kp, m, sig))

---------------------------------------------------------------------------
(* Serialization operations.                                               *)

SerializeKeyPair ==
    /\ kp.family \in KeyPairFamilies
    /\ wire' = Serialize(kp)
    /\ wireOf' = kp
    /\ UNCHANGED <<entropy, kp, kpFrom, genKp, art, artBy, artMsg, last, aux>>

SerializeArtifact ==
    /\ art.type # "None"
    /\ wire' = Serialize(art)
    /\ wireOf' = art
    /\ UNCHANGED <<entropy, kp, kpFrom, genKp, art, artBy, artMsg, last, aux>>

DeserializeKeyPair ==
    /\ wire.type \in KeyPairFamilies
    /\ kp' = Deserialize(wire)
    /\ kpFrom' = "deserialize"
    /\ UNCHANGED <<entropy, genKp, art, artBy, artMsg, last, wire, wireOf, aux>>

Next ==
    \/ MlKemGenerate
    \/ MlKemEncapsulate
    \/ MlKemDecapsulate
    \/ HybridGenerate
    \/ HybridEncapsulate
    \/ HybridDecapsulate
    \/ HybridClearSecret
    \/ MlDsaGenerate
    \/ MlDsaSign
    \/ MlDsaVerify
    \/ SlhDsaGenerate
    \/ SlhDsaSign
    \/ SlhDsaVerify
    \/ SerializeKeyPair
    \/ SerializeArtifact
    \/ DeserializeKeyPair

Spec == Init /\ [][Next]_vars

---------------------------------------------------------------------------
(* Properties.                                                             *)

\* The last call was made on the key pair generate returned, unchanged since.
OnGenerated == last.from = "generate" /\ last.self = genKp

\* The artifact the caller holds was produced on the key pair of the last call.
ArtOfSelf == artBy = last.self

\* C1: for every ML-KEM variant and every key pair returned by generate,
\* decapsulate of the ciphertext an encapsulate call on that key pair
\* returned succeeds with exactly the shared secret of that encapsulate call.
C1_KemRoundTrip ==
    (/\ last.op = "MlKem_decapsulate"
     /\ OnGenerated
     /\ art.type = "MlKemEncapsulated"
     /\ ArtOfSelf
     /\ last.arg1 = art.ciphertext)
    => last.res = Ok(art.shared_secret)

C1_Witness ==
    /\ last.op = "MlKem_decapsulate"
    /\ OnGenerated
    /\ last.self.variant = "MlKem1024"
    /\ art.type = "MlKemEncapsulated"
    /\ ArtOfSelf
    /\ last.arg1 = art.ciphertext
    /\ last.res.ok

\* C2: for every hybrid key pair returned by generate with its classical
\* secret present, decapsulate(enc.classical_public, enc.pqc_ciphertext) of
\* the result enc of an encapsulate call on it succeeds with exactly
\* enc.shared_secret, which is 32 bytes long.
C2_HybridRoundTrip ==
    (/\ last.op = "Hybrid_decapsulate"
     /\ OnGenerated
     /\ last.self.classical_secret.some
     /\ art.type = "HybridEncapsulated"
     /\ ArtOfSelf
     /\ last.arg1 = art.classical_public
     /\ last.arg2 = art.pqc_ciphertext)
    => /\ last.res = Ok(art.shared_secret)
       /\ last.res.val.len = 32

C2_Witness ==
    /\ last.op = "Hybrid_decapsulate"
    /\ OnGenerated
    /\ last.self.classical_secret.some
    /\ art.type = "HybridEncapsulated"
    /\ ArtOfSelf
    /\ last.arg1 = art.classical_public
    /\ last.arg2 = art.pqc_ciphertext
    /\ last.res.ok
    /\ last.res.val.kind = "sha256"

\* C3: a hybrid decapsulate on a key pair whose classical_secret is absent
\* returns Err(InvalidKeyMaterial) for every ephemeral key and ciphertext,
\* and returns it before any X25519 or ML-KEM operation is made.
C3_AbsentSecretFirst ==
    (last.op = "Hybrid_decapsulate" /\ ~last.self.classical_secret.some)
    => /\ last.res = Err("InvalidKeyMaterial")
       /\ last.trace = <<>>

\* Reached with a malformed ciphertext and with the pair of a real
\* encapsulation, on a cleared and on a deserialized key pair.
C3_Witness ==
    /\ last.op = "Hybrid_decapsulate"
    /\ ~last.self.classical_secret.some
    /\ last.from = "generate"
    /\ last.arg2 = ZeroBytes(10)
    /\ art.type = "HybridEncapsulated"
    /\ last.arg1 = art.classical_public

\* C4: in both signature families, verify with a signature whose variant
\* differs from the key pair's returns Err(Verification), whatever the
\* message and the signature bytes, before any key or signature is decoded.
C4_VariantMismatch ==
    (last.op \in {"MlDsa_verify", "SlhDsa_verify"} /\ last.sigv # last.self.variant)
    => /\ last.res = Err("Verification")
       /\ last.trace = <<>>

\* Reached with the key pair's own valid signature relabelled.
C4_Witness ==
    /\ last.op = "MlDsa_verify"
    /\ last.sigv # last.self.variant
    /\ art.type = "MlDsaSignature"
    /\ ArtOfSelf
    /\ last.arg1 = art.signature
    /\ last.msg = artMsg

\* The last call verified, with the key pair that made it, the signature
\* the caller holds.
VerifiedOwnSignature ==
    /\ last.op \in {"MlDsa_verify", "SlhDsa_verify"}
    /\ OnGenerated
    /\ art.type \in {"MlDsaSignature", "SlhDsaSignature"}
    /\ ArtOfSelf
    /\ last.arg1 = art.signature
    /\ last.sigv = art.variant

\* C5: for every ML-DSA and SLH-DSA variant, every generated key pair and
\* every message, sign succeeds and verify of the message with the
\* signature sign returned is Ok(true).
C5_SignVerifyRoundTrip ==
    /\ (last.op \in {"MlDsa_sign", "SlhDsa_sign"} /\ OnGenerated) => last.res.ok
    /\ (VerifiedOwnSignature /\ last.msg = artMsg) => last.res = OkBool(TRUE)

C5_Witness ==
    /\ VerifiedOwnSignature
    /\ last.msg = artMsg
    /\ last.self.variant = "MlDsa87"
    /\ last.res.flag

\* C6: for every signature variant, verifying a signature made for m
\* against a different message is Ok(false): no error and never Ok(true).
C6_WrongMessageIsFalse ==
    (VerifiedOwnSignature /\ last.msg # artMsg) => last.res = OkBool(FALSE)

C6_Witness ==
    /\ VerifiedOwnSignature
    /\ last.msg # artMsg
    /\ last.self.family = "MlDsa"
    /\ last.res.ok
    /\ ~last.res.flag

\* The catalog's published (public_len, secret_len) of a key pair's variant.
key_sizes(o) ==
    CASE o.family = "MlKem" -> MlKem_key_sizes(o.variant)
      [] o.family = "MlDsa" -> MlDsa_key_sizes(o.variant)
      [] o.family = "SlhDsa" -> SlhDsa_key_sizes(o.variant)

CatalogFamilies == {"MlKem", "MlDsa", "SlhDsa"}

\* C7 as stated: every key pair generate returns, in every family, has
\* public and secret key lengths equal to the catalog's key_sizes().
C7_Original ==
    genKp.family \in CatalogFamilies
    => <<genKp.public_key.len, genKp.secret_key.len>> = key_sizes(genKp)

\* C7 as amended: every generated key pair's public key has the catalog's
\* public length; the secret key has the catalog's secret length for the
\* SLH-DSA variants only, and is the 32-byte seed for ML-DSA and the 64-byte
\* seed for ML-KEM.
C7_GeneratedSizes ==
    genKp.family \in CatalogFamilies
    => /\ genKp.public_key.len = key_sizes(genKp)[1]
       /\ genKp.secret_key.len =
            CASE genKp.family = "SlhDsa" -> key_sizes(genKp)[2]
              [] genKp.family = "MlDsa" -> 32
              [] genKp.family = "MlKem" -> 64

C7_Witness ==
    /\ genKp.family = "SlhDsa"
    /\ genKp.variant = "Sha2_256f"
    /\ kp = genKp
    /\ last.op = "SlhDsa_generate"

\* C8: for every ML-DSA variant the secret_key of a generated key pair is
\* the 32-byte seed that was drawn, never the expanded signing key, and
\* every sign call derives the signing key from the seed before signing.
C8_SeedStored ==
    /\ genKp.family = "MlDsa"
       => /\ genKp.secret_key.len = 32
          /\ genKp.secret_key.kind = "rand"
          /\ genKp.public_key = MlDsa_from_seed(genKp.variant, genKp.secret_key).vk
    /\ (last.op = "MlDsa_sign" /\ last.res.ok)
       => last.trace = <<"ml_dsa::from_seed", "ml_dsa::sign">>

C8_Witness ==
    /\ last.op = "MlDsa_sign"
    /\ OnGenerated
    /\ last.res.ok
    /\ art.type = "MlDsaSignature"
    /\ artMsg = 2

\* The secrets an object could hold in place of its own.
OtherSecrets == {EmptyBytes, ZeroBytes(32), RandomBytes(32, 0), JunkBytes(64)}

\* The objects that agree with o on every field that is not secret.
SameButSecrets(o) ==
    IF "family" \in DOMAIN o
    THEN IF o.family = "Hybrid"
         THEN {[o EXCEPT !.classical_secret = c, !.pqc_keypair.secret_key = s] :
                 c \in {None} \cup {Some(x) : x \in OtherSecrets}, s \in OtherSecrets}
         ELSE {[o EXCEPT !.secret_key = s] : s \in OtherSecrets}
    ELSE IF o.type \in {"MlKemEncapsulated", "HybridEncapsulated"}
         THEN {[o EXCEPT !.shared_secret = s] : s \in OtherSecrets}
         ELSE {o}

\* C9: the serialized form of a key pair, of an encapsulated result, of a
\* hybrid key pair and of a hybrid encapsulated result is the same for any
\* two values that differ in secret fields only.
C9_SerializedWithoutSecrets ==
    wire.type # "None"
    => \A o \in SameButSecrets(wireOf) : Serialize(o) = wire

C9_Witness ==
    /\ wire.type = "Hybrid"
    /\ wireOf = genKp
    /\ wireOf.classical_secret.some
    /\ wireOf.pqc_keypair.secret_key.len = 64

\* The operations that need the secret of the key pair they are called on.
SecretOps == {"MlKem_decapsulate", "MlDsa_sign", "SlhDsa_sign", "Hybrid_decapsulate"}

\* A deserialized key pair has its secret field unset.
SecretUnset(o) ==
    IF o.family = "Hybrid"
    THEN ~o.classical_secret.some /\ o.pqc_keypair.secret_key = EmptyBytes
    ELSE o.secret_key = EmptyBytes

\* C10 as stated: a deserialized key pair has its secret unset, and every
\* operation that needs the secret fails on it with InvalidKeyMaterial.
C10_Original ==
    /\ kpFrom = "deserialize" => SecretUnset(kp)
    /\ (last.from = "deserialize" /\ last.op \in SecretOps)
       => last.res = Err("InvalidKeyMaterial")

\* C10 as amended: a deserialized key pair has its secret unset, and every
\* operation that needs the secret fails on it: hybrid decapsulate with
\* InvalidKeyMaterial, KEM decapsulate with Decapsulation, ML-DSA sign and
\* SLH-DSA sign with Signing.
C10_DeserializedFails ==
    /\ kpFrom = "deserialize" => SecretUnset(kp)
    /\ (last.from = "deserialize" /\ last.op \in SecretOps)
       => last.res =
            CASE last.op = "Hybrid_decapsulate" -> Err("InvalidKeyMaterial")
              [] last.op = "MlKem_decapsulate" -> Err("Decapsulation")
              [] last.op \in {"MlDsa_sign", "SlhDsa_sign"} -> Err("Signing")

C10_Witness ==
    /\ kpFrom = "deserialize"
    /\ last.from = "deserialize"
    /\ last.self = kp
    /\ last.op = "MlDsa_sign"
    /\ ~last.res.ok

---------------------------------------------------------------------------
(* Entropy failure and caller-supplied generators (crypto/src/rng.rs and   *)
(* the getrandom::fill call sites; generate_with_rng of each family).      *)

MaxRng == 1

\* A panic is not a value a call returns: the record of a call that
\* panicked carries this in place of a result.
Panicked == [ok |-> FALSE, err |-> "panic", val |-> EmptyBytes, flag |-> FALSE]

\* getrandom::fill(..).expect(..): when the fails-th draw of an operation
\* finds the entropy source unavailable the operation panics there; fails = 0
\* is the operation with every draw served.
expect(ret, fails) ==
    IF fails = 0 THEN ret
    ELSE LET at == CHOOSE i \in DOMAIN ret.trace :
                      /\ ret.trace[i] = "rng"
                      /\ Draws(SubSeq(ret.trace, 1, i)) = fails
         IN  Ret(Panicked, SubSeq(ret.trace, 1, at))

\* What panic! does to the process.  Built with panic = "abort" it ends the
\* process.  Built with panic = "unwind" (the default) it unwinds the stack
\* of the panicking thread: from the main thread the process ends, inside
\* std::panic::catch_unwind or on a spawned thread the process goes on and
\* the panic is reported as an Err to whoever caught or joined it.
panic(strategy, context) ==
    IF strategy = "abort" \/ context = "main" THEN "terminated" ELSE "running"

\* generate_with_rng: _rng is never touched; what comes back is the result
\* of generate and the caller's generator in the state it was passed in.
MlKemKeyPair_generate_with_rng(variant, _rng, seed) ==
    [ret |-> MlKemKeyPair_generate(variant, seed), rng |-> _rng]

\* A slip: the seed taken from the caller's generator.
MlDsaKeyPair_generate_with_rng_seeded(variant, _rng, nonce) ==
    [ret |-> MlDsaKeyPair_generate(variant, 0 - (_rng + 1)), rng |-> _rng + 1]

MlDsaKeyPair_generate_with_rng(variant, _rng, nonce) ==
    [ret |-> MlDsaKeyPair_generate(variant, nonce), rng |-> _rng]

SlhDsaKeyPair_generate_with_rng(variant, _rng, nonce) ==
    [ret |-> SlhDsaKeyPair_generate(variant, nonce), rng |-> _rng]

\* A record of one call made while the entropy source may fail: for a call
\* that is passed a generator (rng = <<its state on return>>), the generator
\* before and after; how the call ended; for a call that panicked, the
\* thread context it ran in.
RngCall(op, v, context, ret, rng) ==
    [op |-> op, variant |-> v, context |-> context,
     rng |-> IF rng = <<>> THEN <<>> ELSE <<callerRng, rng[1]>>,
     res |-> ret.res, trace |-> ret.trace]

\* One call: it runs only while the process does.  Either every draw is
\* served and the call returns, or a draw finds the source unavailable (a
\* source that works may stop working at any draw) and the call panics.
Attempt(op, v, ret0, rng) ==
    /\ proc = "running"
    /\ entropy + Draws(ret0.trace) <= MaxDraws
    /\ \/ /\ osrng = "ok" \/ Draws(ret0.trace) = 0
          /\ last' = RngCall(op, v, "", Outcome(ret0), rng)
          /\ entropy' = entropy + Draws(ret0.trace)
          /\ callerRng' = IF rng = <<>> THEN callerRng ELSE rng[1]
          /\ kp' = IF ret0.res.ok /\ "family" \in DOMAIN ret0.res.val
                   THEN ret0.res.val ELSE kp
          /\ UNCHANGED <<osrng, proc>>
       \/ \E fails \in 1..Draws(ret0.trace),
             context \in {"main", "catch_unwind", "spawned"} :
             /\ osrng = "unavailable" => fails = 1
             /\ last' = RngCall(op, v, context, expect(ret0, fails),
                                IF rng = <<>> THEN <<>> ELSE <<callerRng>>)
             /\ entropy' = entropy + fails - 1
             /\ osrng' = "unavailable"
             /\ proc' = panic(panicStrategy, context)
             /\ UNCHANGED <<kp, callerRng>>
    /\ UNCHANGED <<kpFrom, genKp, art, artBy, artMsg, wire, wireOf, panicStrategy,
                   hist, heap, exit,
                   thread, mem>>

InitRng ==
    /\ osrng = "ok"
    /\ proc = "running"
    /\ panicStrategy \in {"unwind", "abort"}
    /\ callerRng = 0
    /\ hist = <<>>
    /\ heap = <<>>
    /\ exit = ""
    /\ thread = <<>>
    /\ mem = <<>>
    /\ entropy = 0
    /\ kp = NoKeyPair
    /\ kpFrom = "none"
    /\ genKp = NoKeyPair
    /\ art = NoArtifact
    /\ artBy = NoKeyPair
    /\ artMsg = 0
    /\ last = NoCall
    /\ wire = NoWire
    /\ wireOf = NoKeyPair

RngGenerate ==
    \/ \E v \in MlKemVariants :
          Attempt("MlKem_generate", v, MlKemKeyPair_generate(v, Draw(1)), <<>>)
    \/ \E v \in MlDsaVariants :
          Attempt("MlDsa_generate", v, MlDsaKeyPair_generate(v, Draw(1)), <<>>)
    \/ \E v \in SlhDsaVariants :
          Attempt("SlhDsa_generate", v, SlhDsaKeyPair_generate(v, Draw(1)), <<>>)
    \/ Attempt("Hybrid_generate", "X25519MlKem768",
               HybridKemKeyPair_generate(Draw(1), Draw(2)), <<>>)

RngEncapsulate ==
    \/ /\ kp.family = "MlKem"
       /\ Attempt("MlKem_encapsulate", kp.variant,
                  MlKemKeyPair_encapsulate(kp, Draw(1)), <<>>)
    \/ /\ kp.family = "Hybrid"
       /\ Attempt("Hybrid_encapsulate", kp.variant,
                  HybridKemKeyPair_encapsulate(kp, Draw(1), Draw(2)), <<>>)

RngSign ==
    \/ /\ kp.family = "SlhDsa"
       /\ Attempt("SlhDsa_sign", kp.variant, SlhDsaKeyPair_sign(kp, 1, Draw(1)), <<>>)
    \/ /\ kp.family = "MlDsa"
       /\ Attempt("MlDsa_sign", kp.variant, MlDsaKeyPair_sign(kp, 1), <<>>)

GenerateWithRng ==
    \/ \E v \in MlKemVariants :
          LET r == MlKemKeyPair_generate_with_rng(v, callerRng, Draw(1))
          IN  Attempt("MlKem_generate_with_rng", v, r.ret, <<r.rng>>)
    \/ \E v \in MlDsaVariants :
          LET r == MlDsaKeyPair_generate_with_rng(v, callerRng, Draw(1))
          IN  Attempt("MlDsa_generate_with_rng", v, r.ret, <<r.rng>>)
    \/ \E v \in SlhDsaVariants :
          LET r == SlhDsaKeyPair_generate_with_rng(v, callerRng, Draw(1))
          IN  Attempt("SlhDsa_generate_with_rng", v, r.ret, <<r.rng>>)

\* The caller draws from its own generator.
CallerRngNext ==
    /\ proc = "running"
    /\ callerRng < MaxRng
    /\ callerRng' = callerRng + 1
    /\ UNCHANGED <<entropy, kp, kpFrom, genKp, art, artBy, artMsg, last, wire,
                   wireOf, osrng, proc, panicStrategy, hist, heap, exit,
                   thread, mem>>

NextRng ==
    \/ RngGenerate
    \/ RngEncapsulate
    \/ RngSign
    \/ GenerateWithRng
    \/ CallerRngNext

SpecRng == InitRng /\ [][NextRng]_vars

---------------------------------------------------------------------------
(* Properties of SpecRng.                                                  *)

\* C11 as stated: when the OS entropy source fails during an operation that
\* draws randomness, the operation aborts the process: it does not return
\* to its caller, with a result or with a CryptoError, and the process is no
\* longer running.
C11_EntropyFailureAborts ==
    /\ last.op # "none" => last.res.err # "Rng"
    /\ (last.op # "none" /\ osrng = "unavailable" /\ Draws(last.trace) > 0)
       => last.res = Panicked
    /\ (last.op # "none" /\ last.res = Panicked) => proc = "terminated"

\* C12: generate_with_rng of every family never reads the generator it is
\* passed: for one state of the OS source the result is the same whatever
\* generator is passed, it is the key pair generate returns for the variant,
\* and the caller's generator is handed back in the state it was passed in.
C12_CallerRngIgnored ==
    /\ \A r \in 0..MaxRng :
          /\ \A v \in MlKemVariants :
                MlKemKeyPair_generate_with_rng(v, r, Draw(1))
                  = [ret |-> MlKemKeyPair_generate_with_rng(v, callerRng, Draw(1)).ret,
                     rng |-> r]
          /\ \A v \in MlDsaVariants :
                MlDsaKeyPair_generate_with_rng(v, r, Draw(1))
                  = [ret |-> MlDsaKeyPair_generate_with_rng(v, callerRng, Draw(1)).ret,
                     rng |-> r]
          /\ \A v \in SlhDsaVariants :
                SlhDsaKeyPair_generate_with_rng(v, r, Draw(1))
                  = [ret |-> SlhDsaKeyPair_generate_with_rng(v, callerRng, Draw(1)).ret,
                     rng |-> r]
    /\ (last.op \in {"MlKem_generate_with_rng", "MlDsa_generate_with_rng",
                     "SlhDsa_generate_with_rng"} /\ last.res.ok)
       => /\ last.rng[2] = last.rng[1]
          /\ kp = CASE last.op = "MlKem_generate_with_rng" ->
                         MlKemKeyPair_generate(last.variant, entropy).res.val
                    [] last.op = "MlDsa_generate_with_rng" ->
                         MlDsaKeyPair_generate(last.variant, entropy).res.val
                    [] last.op = "SlhDsa_generate_with_rng" ->
                         SlhDsaKeyPair_generate(last.variant, entropy).res.val

C12_Witness ==
    /\ last.op = "SlhDsa_generate_with_rng"
    /\ last.res.ok
    /\ last.rng[1] > 0
    /\ kp.family = "SlhDsa"

---------------------------------------------------------------------------
(* Properties of Spec: ciphertexts and signatures.                         *)

\* C13 as stated: KEM decapsulate on a generated key pair, given a
\* ciphertext of the wrong length or a ciphertext of the right length that
\* encapsulate did not produce against this key pair's public key, returns
\* Err(Decapsulation) and never Ok with a secret.
C13_BadCiphertextIsError ==
    (/\ last.op = "MlKem_decapsulate"
     /\ OnGenerated
     /\ ~(/\ last.arg1.kind = "ct"
          /\ last.arg1.alg = last.self.variant
          /\ last.arg1.body[1] = last.self.public_key.body[1]))
    => last.res = Err("Decapsulation")

---------------------------------------------------------------------------
(* Key pairs of arbitrary bytes.  The fields of a key pair are public and  *)
(* public_key is whatever a deserialized input held, so the operations     *)
(* can meet key bytes no generate call produced.                           *)

\* The key pair generate returned with draw 1, with each key field as it is,
\* replaced by bytes of its length (zero bytes, bytes no decoder accepts),
\* by bytes of another length, or emptied; or the hybrid key pair generate
\* returned with draws 1 and 2, its four key fields treated the same way
\* (classical_secret may also be None).
InitKeys ==
    /\ AuxInit
    /\ \/ /\ entropy = 1
          /\ \E g \in {MlKemKeyPair_generate(v, 1).res.val : v \in MlKemVariants}
                   \cup {MlDsaKeyPair_generate(v, 1).res.val : v \in MlDsaVariants}
                   \cup {SlhDsaKeyPair_generate(v, 1).res.val : v \in SlhDsaVariants} :
             \E pk \in {g.public_key, ZeroBytes(g.public_key.len),
                        JunkBytes(g.public_key.len),
                        ZeroBytes(g.public_key.len - 1), EmptyBytes},
                sk \in {g.secret_key, ZeroBytes(g.secret_key.len),
                        ZeroBytes(g.secret_key.len + 1),
                        ZeroBytes(key_sizes(g)[2]), EmptyBytes} :
                kp = [g EXCEPT !.public_key = pk, !.secret_key = sk]
       \/ /\ entropy = 2
          /\ LET g == HybridKemKeyPair_generate(1, 2).res.val
             IN  \E cp \in {g.classical_public, ZeroBytes(31)},
                    cs \in {g.classical_secret, None, Some(ZeroBytes(32)),
                            Some(ZeroBytes(31)), Some(EmptyBytes)},
                    pk \in {g.pqc_keypair.public_key,
                            ZeroBytes(g.pqc_keypair.public_key.len - 1)},
                    sk \in {g.pqc_keypair.secret_key, ZeroBytes(MlKemSeedLen),
                            EmptyBytes} :
                    kp = [g EXCEPT !.classical_public = cp,
                                   !.classical_secret = cs,
                                   !.pqc_keypair.public_key = pk,
                                   !.pqc_keypair.secret_key = sk]
    /\ kpFrom = "literal"
    /\ genKp = NoKeyPair
    /\ art = NoArtifact
    /\ artBy = NoKeyPair
    /\ artMsg = 0
    /\ last = NoCall
    /\ wire = NoWire
    /\ wireOf = NoKeyPair

NextKeys ==
    \/ MlKemEncapsulate
    \/ MlKemDecapsulate
    \/ HybridEncapsulate
    \/ HybridDecapsulate
    \/ MlDsaSign
    \/ MlDsaVerify
    \/ SlhDsaSign
    \/ SlhDsaVerify

SpecKeys == InitKeys /\ [][NextKeys]_vars

---------------------------------------------------------------------------
(* Properties of SpecKeys.                                                 *)

\* C14: an operation on a key pair whose stored key bytes have the wrong
\* length fails with its own error kind and returns nothing: KEM encapsulate
\* with a public key that is not of the variant's encoded length gives
\* Err(Encapsulation), KEM decapsulate with a secret key that is not of the
\* length decapsulation parses (the seed form) gives Err(Decapsulation),
\* ML-DSA sign with a seed that is not exactly 32 bytes gives Err(Signing).
C14_WrongLengthKey ==
    /\ (/\ last.op = "MlKem_encapsulate"
        /\ last.self.public_key.len # MlKem_key_sizes(last.self.variant)[1])
       => last.res = Err("Encapsulation")
    /\ (/\ last.op = "MlKem_decapsulate"
        /\ last.self.secret_key.len # MlKemSeedLen)
       => last.res = Err("Decapsulation")
    /\ (/\ last.op = "MlDsa_sign"
        /\ last.self.secret_key.len # 32)
       => last.res = Err("Signing")

C14_Witness ==
    /\ last.op = "MlKem_encapsulate"
    /\ last.self.public_key.len = MlKem_key_sizes(last.self.variant)[1] - 1
    /\ ~last.res.ok

\* C15: in both signature families, when the signature's variant is the key
\* pair's, verify returns Err(Verification) exactly when the public key
\* bytes or the signature bytes do not decode for the variant, and otherwise
\* Ok(true) when the signature matches the message under the key and
\* Ok(false) when it does not.
C15_VerifyOutcomes ==
    /\ (last.op = "MlDsa_verify" /\ last.sigv = last.self.variant)
       => LET P == last.self.variant
              sig == MlDsa_sig_try_from(P, last.arg1)
          IN  /\ last.res \in {Err("Verification"), OkBool(TRUE), OkBool(FALSE)}
              /\ last.res = Err("Verification")
                    <=> (last.self.public_key.len # VkLen(P) \/ ~sig.ok)
              /\ last.res = OkBool(TRUE)
                    <=> /\ last.self.public_key.len = VkLen(P)
                        /\ sig.ok
                        /\ MlDsa_vk_verify(MlDsa_vk_decode(P, last.self.public_key),
                                           last.msg, sig.val)
    /\ (last.op = "SlhDsa_verify" /\ last.sigv = last.self.variant)
       => LET P == last.self.variant
              vk == SlhDsa_VerifyingKey_try_from(P, last.self.public_key)
              sig == SlhDsa_Signature_try_from(P, last.arg1)
          IN  /\ last.res \in {Err("Verification"), OkBool(TRUE), OkBool(FALSE)}
              /\ last.res = Err("Verification") <=> (~vk.ok \/ ~sig.ok)
              /\ last.res = OkBool(TRUE)
                    <=> /\ vk.ok
                        /\ sig.ok
                        /\ SlhDsa_vk_verify(vk.val, last.msg, sig.val)

C15_Witness ==
    /\ last.op = "SlhDsa_verify"
    /\ last.sigv = last.self.variant
    /\ last.arg1 = ZeroBytes(SlhDsa_signature_size(last.self.variant))
    /\ last.res = OkBool(FALSE)

\* C16 as stated: every signature sign returns carries the key pair's
\* variant and has the length signature_size() gives for it, and sign
\* compares the length with signature_size() before it returns.
C16_Original ==
    /\ art.type \in {"MlDsaSignature", "SlhDsaSignature"}
       => /\ art.variant = artBy.variant
          /\ art.signature.len =
                IF art.type = "MlDsaSignature"
                THEN MlDsa_signature_size(art.variant)
                ELSE SlhDsa_signature_size(art.variant)
    /\ (last.op \in {"MlDsa_sign", "SlhDsa_sign"} /\ last.res.ok)
       => \E i \in DOMAIN last.trace : last.trace[i] = "signature_size"

\* C16 as amended: every signature sign returns carries the key pair's
\* variant and has the length signature_size() gives for it; the length is
\* the one the parameter set's encoding has, and sign returns the encoded
\* signature without a length check of its own.
C16_SignatureSizes ==
    /\ art.type \in {"MlDsaSignature", "SlhDsaSignature"}
       => /\ art.variant = artBy.variant
          /\ art.signature.len =
                IF art.type = "MlDsaSignature"
                THEN MlDsa_signature_size(art.variant)
                ELSE SlhDsa_signature_size(art.variant)
    /\ (last.op = "MlDsa_sign" /\ last.res.ok)
       => last.trace = <<"ml_dsa::from_seed", "ml_dsa::sign">>
    /\ (last.op = "SlhDsa_sign" /\ last.res.ok)
       => last.trace = <<"sk_try_from", "rng", "slh_dsa::sign">>

C16_Witness ==
    /\ last.op = "SlhDsa_sign"
    /\ last.res.ok
    /\ art.type = "SlhDsaSignature"
    /\ art.variant = "Sha2_256f"
    /\ art.signature.len = 49856

\* C17: in hybrid encapsulate and in hybrid decapsulate the combined secret
\* is SHA-256 over the tag "quantun-hybrid-kem-v1", the X25519 shared secret
\* and the ML-KEM shared secret, in this order; it is 32 bytes long, and it
\* is neither the hash with the two secrets swapped nor the hash without
\* the tag.
C17_CombinedSecret ==
    /\ art.type = "HybridEncapsulated"
       => LET tag == Mk(21, "ascii", "quantun-hybrid-kem-v1", <<>>, <<>>)
              classical == diffie_hellman([scalar |-> art.classical_public.body[1]],
                                          artBy.classical_public)
              ek == EncapsulationKey_new_from_slice("MlKem768",
                                                    artBy.pqc_keypair.public_key).val
              pqc == Ek_encapsulate(ek, art.pqc_ciphertext.body[2]).ss
          IN  /\ art.shared_secret = Sha256(<<tag, classical, pqc>>)
              /\ art.shared_secret.len = 32
              /\ art.shared_secret # Sha256(<<tag, pqc, classical>>)
              /\ art.shared_secret # Sha256(<<classical, pqc>>)
    /\ (last.op = "Hybrid_decapsulate" /\ last.res.ok)
       => LET tag == Mk(21, "ascii", "quantun-hybrid-kem-v1", <<>>, <<>>)
              classical == diffie_hellman(
                               StaticSecret_from(last.self.classical_secret.val),
                               last.arg1)
              dk == DecapsulationKey_new_from_slice(
                        "MlKem768", last.self.pqc_keypair.secret_key).val
              pqc == Dk_decapsulate_slice(dk, last.arg2).val
          IN  /\ last.res.val = Sha256(<<tag, classical, pqc>>)
              /\ last.res.val.len = 32
              /\ last.res.val # Sha256(<<tag, pqc, classical>>)
              /\ last.res.val # Sha256(<<classical, pqc>>)

C17_Witness ==
    /\ last.op = "Hybrid_decapsulate"
    /\ last.res.ok
    /\ art.type = "HybridEncapsulated"
    /\ last.arg1 = ZeroBytes(32)
    /\ last.arg2 = art.pqc_ciphertext

---------------------------------------------------------------------------
(* Repeated calls on one key pair (ML-KEM and hybrid), every call and its  *)
(* outcome kept.                                                           *)

MaxCalls == 3

\* let kp = MlKemKeyPair::generate(v) / HybridKemKeyPair::generate()
CallsGenerate ==
    /\ kp = NoKeyPair
    /\ \E ret \in {MlKemKeyPair_generate(v, Draw(1)) : v \in MlKemVariants}
                  \cup {HybridKemKeyPair_generate(Draw(1), Draw(2))} :
          /\ kp' = ret.res.val
          /\ entropy' = entropy + Draws(ret.trace)
    /\ UNCHANGED <<kpFrom, genKp, art, artBy, artMsg, last, wire, wireOf, osrng,
                   proc, panicStrategy, callerRng, hist, heap, exit,
                   thread, mem>>

\* kp.encapsulate(), the result kept.
CallsEncapsulate ==
    /\ kp.family \in {"MlKem", "Hybrid"}
    /\ Len(hist) < MaxCalls
    /\ LET ret == IF kp.family = "MlKem"
                  THEN MlKemKeyPair_encapsulate(kp, Draw(1))
                  ELSE HybridKemKeyPair_encapsulate(kp, Draw(1), Draw(2))
       IN  /\ hist' = Append(hist, [op |-> "encapsulate", at |-> entropy,
                                    arg1 |-> EmptyBytes, arg2 |-> EmptyBytes,
                                    res |-> ret.res, trace |-> ret.trace])
           /\ entropy' = entropy + Draws(ret.trace)
    /\ UNCHANGED <<kp, kpFrom, genKp, art, artBy, artMsg, last, wire, wireOf,
                   osrng, proc, panicStrategy, callerRng, heap, exit,
                   thread, mem>>

\* kp.decapsulate(..) on what an earlier encapsulate returned, or on zero
\* bytes of a wrong and of the right length.
CallsDecapsulate ==
    /\ kp.family \in {"MlKem", "Hybrid"}
    /\ Len(hist) < MaxCalls
    /\ LET encs == {hist[i].res.val : i \in {j \in DOMAIN hist : hist[j].op = "encapsulate"}}
           args == IF kp.family = "MlKem"
                   THEN {<<ct, EmptyBytes>> :
                            ct \in {e.ciphertext : e \in encs}
                                   \cup {ZeroBytes(10),
                                         ZeroBytes(MlKem_ciphertext_size(kp.variant))}}
                   ELSE {<<e.classical_public, e.pqc_ciphertext>> : e \in encs}
                        \cup {<<ZeroBytes(32),
                                ZeroBytes(MlKem_ciphertext_size("MlKem768"))>>}
       IN  \E a \in args :
              LET ret == IF kp.family = "MlKem"
                         THEN MlKemKeyPair_decapsulate(kp, a[1])
                         ELSE HybridKemKeyPair_decapsulate(kp, a[1], a[2])
              IN  /\ hist' = Append(hist, [op |-> "decapsulate", at |-> entropy,
                                           arg1 |-> a[1], arg2 |-> a[2],
                                           res |-> ret.res, trace |-> ret.trace])
                  /\ entropy' = entropy + Draws(ret.trace)
    /\ UNCHANGED <<kp, kpFrom, genKp, art, artBy, artMsg, last, wire, wireOf,
                   osrng, proc, panicStrategy, callerRng, heap, exit,
                   thread, mem>>

NextCalls ==
    \/ CallsGenerate
    \/ CallsEncapsulate
    \/ CallsDecapsulate

SpecCalls == Init /\ [][NextCalls]_vars

\* C18: every hybrid encapsulate call draws a fresh ephemeral X25519 key
\* pair and makes a fresh ML-KEM encapsulation: any two encapsulate calls
\* on one hybrid key pair return different ephemeral public keys, different
\* ML-KEM ciphertexts and different combined secrets.
C18_FreshEphemeral ==
    kp.family = "Hybrid"
    => \A i \in DOMAIN hist :
          hist[i].op = "encapsulate"
          => /\ hist[i].res.ok
             /\ Draws(hist[i].trace) = 2
             /\ hist[i].res.val.classical_public
                  = PublicKey_from_secret(
                        StaticSecret_from(RandomBytes(32, hist[i].at + 1)))
             /\ \A j \in DOMAIN hist :
                   (j # i /\ hist[j].op = "encapsulate")
                   => /\ hist[i].res.val.classical_public
                           # hist[j].res.val.classical_public
                      /\ hist[i].res.val.pqc_ciphertext
                           # hist[j].res.val.pqc_ciphertext
                      /\ hist[i].res.val.shared_secret
                           # hist[j].res.val.shared_secret

C18_Witness ==
    /\ kp.family = "Hybrid"
    /\ Len(hist) = 3
    /\ \A i \in DOMAIN hist : hist[i].op = "encapsulate" /\ hist[i].res.ok

\* C19: KEM encapsulate draws fresh randomness on every call, so any two
\* calls on one key pair return different ciphertexts and different shared
\* secrets; KEM decapsulate draws none, and any two calls on one key pair
\* with the same ciphertext have the same outcome.
C19_KemDeterminism ==
    kp.family = "MlKem"
    => \A i \in DOMAIN hist :
          /\ hist[i].op = "encapsulate"
             => /\ hist[i].res.ok
                /\ Draws(hist[i].trace) = 1
                /\ \A j \in DOMAIN hist :
                      (j # i /\ hist[j].op = "encapsulate")
                      => /\ hist[i].res.val.ciphertext # hist[j].res.val.ciphertext
                         /\ hist[i].res.val.shared_secret
                              # hist[j].res.val.shared_secret
          /\ hist[i].op = "decapsulate"
             => /\ Draws(hist[i].trace) = 0
                /\ (IF i < Len(hist) THEN hist[i + 1].at ELSE entropy) = hist[i].at
                /\ \A j \in DOMAIN hist :
                      (hist[j].op = "decapsulate" /\ hist[j].arg1 = hist[i].arg1)
                      => hist[j].res = hist[i].res

C19_Witness ==
    /\ kp.family = "MlKem"
    /\ Len(hist) = 3
    /\ hist[1].op = "encapsulate"
    /\ hist[2].op = "decapsulate"
    /\ hist[3].op = "decapsulate"
    /\ hist[2].arg1 = ZeroBytes(MlKem_ciphertext_size(kp.variant))
    /\ hist[3].arg1 = hist[2].arg1
    /\ hist[3].res.ok

---------------------------------------------------------------------------
(* Ownership and release of secret buffers (the Drop impls of mlkem.rs,    *)
(* hybrid.rs, mldsa.rs and slhdsa.rs).                                     *)

MaxObjs == 3

\* Vec<u8>::zeroize: every byte of the buffer is overwritten with zero (the
\* vector is then cleared; the bytes stand for the memory it owns).
zeroize(bytes) == ZeroBytes(bytes.len)

\* A slip: HybridKemKeyPair left without a Drop impl.
Drop_drop_without_hybrid(self) ==
    IF "family" \in DOMAIN self
    THEN IF self.family \in {"MlKem", "MlDsa", "SlhDsa"}
         THEN [self EXCEPT !.secret_key = zeroize(@)]
         ELSE self
    ELSE IF self.type \in {"MlKemEncapsulated", "HybridEncapsulated"}
         THEN [self EXCEPT !.shared_secret = zeroize(@)]
         ELSE self

\* impl Drop for MlKemKeyPair / MlDsaKeyPair / SlhDsaKeyPair (secret_key),
\* MlKemEncapsulated / HybridEncapsulated (shared_secret) and
\* HybridKemKeyPair (classical_secret, if Some).
Drop_drop(self) ==
    IF "family" \in DOMAIN self
    THEN IF self.family \in {"MlKem", "MlDsa", "SlhDsa"}
         THEN [self EXCEPT !.secret_key = zeroize(@)]
         ELSE IF self.family = "Hybrid" /\ self.classical_secret.some
         THEN [self EXCEPT !.classical_secret.val = zeroize(@)]
         ELSE self
    ELSE IF self.type \in {"MlKemEncapsulated", "HybridEncapsulated"}
         THEN [self EXCEPT !.shared_secret = zeroize(@)]
         ELSE self

\* Dropping a value: its Drop::drop runs, then each field is dropped in
\* turn; the pqc_keypair field of a hybrid key pair has a Drop impl of its
\* own. The result is the memory of the value as it is released.
drop_in_place(v) ==
    LET d == Drop_drop(v)
    IN  IF "family" \in DOMAIN v /\ v.family = "Hybrid"
        THEN [d EXCEPT !.pqc_keypair = Drop_drop(@)]
        ELSE d

\* heap[i]: a value as it was created, whether it has been dropped, and the
\* memory of its buffers now.
Owned(v) == [val |-> v, dropped |-> FALSE, mem |-> v]
Released(v) == [val |-> v, dropped |-> TRUE, mem |-> drop_in_place(v)]

\* let x = <Type>::generate(..)?, one parameter set of each family (the
\* Drop impls do not read the variant).
DropGenerate ==
    /\ exit = "" /\ proc = "running"
    /\ Len(heap) < MaxObjs
    /\ \E ret \in {MlKemKeyPair_generate("MlKem768", Draw(1)),
                   MlDsaKeyPair_generate("MlDsa65", Draw(1)),
                   SlhDsaKeyPair_generate("Sha2_128s", Draw(1)),
                   HybridKemKeyPair_generate(Draw(1), Draw(2))} :
          /\ ret.res.ok
          /\ entropy + Draws(ret.trace) <= MaxDraws
          /\ entropy' = entropy + Draws(ret.trace)
          /\ heap' = Append(heap, Owned(ret.res.val))
    /\ UNCHANGED <<kp, kpFrom, genKp, art, artBy, artMsg, last, wire, wireOf,
                   osrng, proc, panicStrategy, callerRng, hist, exit,
                   thread, mem>>

\* let e = x.encapsulate()? on a live key pair. The hybrid encapsulate
\* holds the ML-KEM result in the local pqc_enc, takes its ciphertext and
\* drops it on return.
DropEncapsulate ==
    /\ exit = "" /\ proc = "running"
    /\ \E i \in DOMAIN heap :
          /\ ~heap[i].dropped
          /\ "family" \in DOMAIN heap[i].val
          /\ \/ /\ heap[i].val.family = "MlKem"
                /\ Len(heap) < MaxObjs
                /\ LET ret == MlKemKeyPair_encapsulate(heap[i].val, Draw(1))
                   IN  /\ ret.res.ok
                       /\ entropy + Draws(ret.trace) <= MaxDraws
                       /\ entropy' = entropy + Draws(ret.trace)
                       /\ heap' = Append(heap, Owned(ret.res.val))
             \/ /\ heap[i].val.family = "Hybrid"
                /\ Len(heap) + 1 < MaxObjs
                /\ LET self == heap[i].val
                       ret == HybridKemKeyPair_encapsulate(self, Draw(1), Draw(2))
                       pqc_enc == MlKemKeyPair_encapsulate(self.pqc_keypair,
                                                           Draw(2)).res.val
                   IN  /\ ret.res.ok
                       /\ entropy + Draws(ret.trace) <= MaxDraws
                       /\ entropy' = entropy + Draws(ret.trace)
                       /\ heap' = heap \o
                             <<Released([pqc_enc EXCEPT !.ciphertext = EmptyBytes]),
                               Owned(ret.res.val)>>
    /\ UNCHANGED <<kp, kpFrom, genKp, art, artBy, artMsg, last, wire, wireOf,
                   osrng, proc, panicStrategy, callerRng, hist, exit,
                   thread, mem>>

\* let y = x.clone(): #[derive(Clone)] copies every field into buffers of
\* its own.
DropClone ==
    /\ exit = "" /\ proc = "running"
    /\ Len(heap) < MaxObjs
    /\ \E i \in DOMAIN heap :
          /\ ~heap[i].dropped
          /\ heap' = Append(heap, Owned(heap[i].val))
    /\ UNCHANGED <<entropy, kp, kpFrom, genKp, art, artBy, artMsg, last, wire,
                   wireOf, osrng, proc, panicStrategy, callerRng, hist, exit,
                   thread, mem>>

\* drop(x), or the end of an inner block that owns x.
DropValue ==
    /\ exit = "" /\ proc = "running"
    /\ \E i \in DOMAIN heap :
          /\ ~heap[i].dropped
          /\ heap' = [heap EXCEPT ![i] = Released(heap[i].val)]
    /\ UNCHANGED <<entropy, kp, kpFrom, genKp, art, artBy, artMsg, last, wire,
                   wireOf, osrng, proc, panicStrategy, callerRng, hist, exit,
                   thread, mem>>

\* The scope that owns the values ends: it returns, it returns early with
\* `?` on the error of a call (here decapsulate of a ciphertext of the
\* wrong length), or a call panics on a failed entropy draw. A return and
\* an unwinding panic drop every live value; a panic of a build with
\* panic = "abort" ends the process and drops nothing.
ScopeEnd ==
    /\ exit = "" /\ proc = "running"
    /\ LET all == [i \in DOMAIN heap |->
                     IF heap[i].dropped THEN heap[i] ELSE Released(heap[i].val)]
       IN  \/ /\ exit' = "return"
              /\ heap' = all
              /\ UNCHANGED <<osrng, proc>>
           \/ /\ \E i \in DOMAIN heap :
                    /\ ~heap[i].dropped
                    /\ "family" \in DOMAIN heap[i].val
                    /\ heap[i].val.family = "MlKem"
                    /\ ~MlKemKeyPair_decapsulate(heap[i].val, ZeroBytes(10)).res.ok
              /\ exit' = "early_return"
              /\ heap' = all
              /\ UNCHANGED <<osrng, proc>>
           \/ \E context \in {"main", "spawned"} :
                 /\ expect(MlKemKeyPair_generate("MlKem768", Draw(1)), 1).res
                      = Panicked
                 /\ osrng' = "unavailable"
                 /\ proc' = panic(panicStrategy, context)
                 /\ exit' = IF panicStrategy = "unwind" THEN "unwind" ELSE "abort"
                 /\ heap' = IF panicStrategy = "unwind" THEN all ELSE heap
    /\ UNCHANGED <<entropy, kp, kpFrom, genKp, art, artBy, artMsg, last, wire,
                   wireOf, panicStrategy, callerRng, hist,
                   thread, mem>>

NextDrop ==
    \/ DropGenerate
    \/ DropEncapsulate
    \/ DropClone
    \/ DropValue
    \/ ScopeEnd

SpecDrop == InitRng /\ [][NextDrop]_vars

\* C20: after any sequence of generate, encapsulate, clone and drop, every
\* secret buffer owned by a dropped value (secret_key of an ML-KEM, ML-DSA
\* or SLH-DSA key pair, classical_secret and the nested ML-KEM secret_key
\* of a hybrid key pair, shared_secret of an ML-KEM or hybrid encapsulated
\* result, clones included) holds zeros only, and once the owning scope has
\* ended by a return, an early error return or an unwind, every value it
\* owned has been dropped.
C20_DroppedSecretsZeroed ==
    LET Secrets(v) ==
            IF "family" \in DOMAIN v
            THEN IF v.family = "Hybrid"
                 THEN <<v.classical_secret.val, v.pqc_keypair.secret_key>>
                 ELSE <<v.secret_key>>
            ELSE <<v.shared_secret>>
    IN  /\ \A i \in DOMAIN heap :
              heap[i].dropped
              => \A k \in DOMAIN Secrets(heap[i].val) :
                    Secrets(heap[i].mem)[k]
                      = ZeroBytes(Secrets(heap[i].val)[k].len)
        /\ exit \in {"return", "early_return", "unwind"}
           => \A i \in DOMAIN heap : heap[i].dropped

C20_Witness ==
    /\ exit = "unwind"
    /\ Len(heap) = 3
    /\ heap[1].val.family = "Hybrid"
    /\ heap[1].val.classical_secret.val.kind = "rand"
    /\ heap[1].val.pqc_keypair.secret_key.kind = "seed64"
    /\ heap[2].val.type = "MlKemEncapsulated"
    /\ heap[3].val.type = "HybridEncapsulated"
    /\ heap[3].val.shared_secret.kind # "zero"
    /\ \A i \in DOMAIN heap : heap[i].dropped

---------------------------------------------------------------------------
(* The transient buffers of an operation: the local arrays and vectors     *)
(* that hold a seed, a secret key or a shared secret while it runs, as     *)
(* they are left when the operation is over.  path is how it ended:        *)
(* "return", "early_return" (a `?` on an Err) or "unwind" (a panic).       *)

\* HybridKemKeyPair::generate: key_bytes is filled (draw n1), copied into
\* the StaticSecret and into classical_secret, and zeroized on line 74,
\* after MlKemKeyPair::generate(..)? on line 65.
HybridKemKeyPair_generate_frame(n1, n2, fails) ==
    LET ret == expect(HybridKemKeyPair_generate(n1, n2), fails)
        pqc == MlKemKeyPair_generate("MlKem768", n2)
    IN  IF fails = 1
        THEN [path |-> "unwind", res |-> ret.res,
              locals |-> [key_bytes |-> ZeroBytes(32)]]
        ELSE IF fails = 2
        THEN [path |-> "unwind", res |-> ret.res,
              locals |-> [key_bytes |-> RandomBytes(32, n1)]]
        ELSE IF ~pqc.res.ok
        THEN [path |-> "early_return", res |-> ret.res,
              locals |-> [key_bytes |-> RandomBytes(32, n1)]]
        ELSE [path |-> "return", res |-> ret.res,
              locals |-> [key_bytes |-> zeroize(RandomBytes(32, n1))]]

\* MlDsaKeyPair::generate: seed is filled (draw nonce) and read by
\* from_seed; nothing overwrites it.
MlDsaKeyPair_generate_frame(variant, nonce, fails) ==
    LET ret == expect(MlDsaKeyPair_generate(variant, nonce), fails)
    IN  IF fails = 1
        THEN [path |-> "unwind", res |-> ret.res,
              locals |-> [seed |-> ZeroBytes(MlDsaSeedLen)]]
        ELSE [path |-> "return", res |-> ret.res,
              locals |-> [seed |-> RandomBytes(MlDsaSeedLen, nonce)]]

\* HybridKemKeyPair::encapsulate: ephemeral_bytes is filled (draw n1),
\* copied into the StaticSecret and zeroized on line 89, before anything
\* else can fail; pqc_enc is dropped (and so zeroized) at the end.
HybridKemKeyPair_encapsulate_frame(self, n1, n2, fails) ==
    LET ret == expect(HybridKemKeyPair_encapsulate(self, n1, n2), fails)
        ephemeral_bytes == IF fails = 1 THEN ZeroBytes(32)
                           ELSE zeroize(RandomBytes(32, n1))
        pqc_enc == MlKemKeyPair_encapsulate(self.pqc_keypair, n2)
    IN  IF fails # 0
        THEN [path |-> "unwind", res |-> ret.res,
              locals |-> [ephemeral_bytes |-> ephemeral_bytes]]
        ELSE IF self.classical_public.len # 32 \/ ~pqc_enc.res.ok
        THEN [path |-> "early_return", res |-> ret.res,
              locals |-> [ephemeral_bytes |-> ephemeral_bytes]]
        ELSE [path |-> "return", res |-> ret.res,
              locals |-> [ephemeral_bytes |-> ephemeral_bytes,
                          pqc_enc |-> drop_in_place(pqc_enc.res.val).shared_secret]]

\* HybridKemKeyPair::decapsulate: secret_array is a copy of the classical
\* secret and pqc_shared the vector MlKemKeyPair::decapsulate returned;
\* neither is overwritten (a [u8; 32] and a Vec<u8> have no Drop that
\* would).
HybridKemKeyPair_decapsulate_frame(self, ephemeral_public_bytes, pqc_ciphertext) ==
    LET ret == HybridKemKeyPair_decapsulate(self, ephemeral_public_bytes,
                                            pqc_ciphertext)
        pqc_shared == MlKemKeyPair_decapsulate(self.pqc_keypair, pqc_ciphertext)
    IN  IF ~self.classical_secret.some \/ self.classical_secret.val.len # 32
        THEN [path |-> "early_return", res |-> ret.res, locals |-> <<>>]
        ELSE IF ephemeral_public_bytes.len # 32 \/ ~pqc_shared.res.ok
        THEN [path |-> "early_return", res |-> ret.res,
              locals |-> [secret_array |-> self.classical_secret.val]]
        ELSE [path |-> "return", res |-> ret.res,
              locals |-> [secret_array |-> self.classical_secret.val,
                          pqc_shared |-> pqc_shared.res.val]]

\* sign_impl: seed is a copy of seed_bytes, zeroized on line 141 right
\* after from_seed.
sign_impl_frame(P, seed_bytes, message, variant) ==
    LET ret == sign_impl(P, seed_bytes, message, variant)
    IN  IF seed_bytes.len # MlDsaSeedLen
        THEN [path |-> "early_return", res |-> ret.res, locals |-> <<>>]
        ELSE [path |-> "return", res |-> ret.res,
              locals |-> [seed |-> zeroize(seed_bytes)]]

\* One call, with the frame it leaves.  A draw that is not served is a
\* panic; a generate that returns keeps its key pair in kp.
Framed(op, draws, frame) ==
    /\ entropy + draws <= MaxDraws
    /\ entropy' = entropy + draws
    /\ last' = [op |-> op, self |-> kp, path |-> frame.path,
                res |-> Outcome(Ret(frame.res, <<>>)).res,
                locals |-> frame.locals]
    /\ kp' = IF frame.res.ok /\ "family" \in DOMAIN frame.res.val
             THEN frame.res.val ELSE kp
    /\ UNCHANGED <<kpFrom, genKp, art, artBy, artMsg, wire, wireOf, aux>>

FrameGenerate ==
    \/ \E fails \in 0..2 :
          Framed("HybridKemKeyPair::generate", IF fails = 0 THEN 2 ELSE fails - 1,
                 HybridKemKeyPair_generate_frame(Draw(1), Draw(2), fails))
    \/ \E v \in MlDsaVariants, fails \in 0..1 :
          Framed("MlDsaKeyPair::generate", 1 - fails,
                 MlDsaKeyPair_generate_frame(v, Draw(1), fails))

FrameEncapsulate ==
    /\ kp.family = "Hybrid"
    /\ \E fails \in 0..2 :
          Framed("HybridKemKeyPair::encapsulate",
                 IF fails = 0 THEN 2 ELSE fails - 1,
                 HybridKemKeyPair_encapsulate_frame(kp, Draw(1), Draw(2), fails))

FrameDecapsulate ==
    /\ kp.family = "Hybrid"
    /\ \E epk \in {ZeroBytes(32), JunkBytes(32), ZeroBytes(10)},
          ct \in {ZeroBytes(MlKem_ciphertext_size("MlKem768")), ZeroBytes(10)} :
          Framed("HybridKemKeyPair::decapsulate", 0,
                 HybridKemKeyPair_decapsulate_frame(kp, epk, ct))

FrameSign ==
    /\ kp.family = "MlDsa"
    /\ \E m \in Messages :
          Framed("sign_impl", 0,
                 sign_impl_frame(kp.variant, kp.secret_key, m, kp.variant))

NextFrame ==
    \/ FrameGenerate
    \/ FrameEncapsulate
    \/ FrameDecapsulate
    \/ FrameSign

SpecFrame == Init /\ [][NextFrame]_vars

\* C21: when HybridKemKeyPair::generate is over, by whatever path it ended
\* (a return, the early return on an ML-KEM error, a panic), the stack
\* copy key_bytes of the classical seed holds zeros only.
C21_KeyBytesZeroized ==
    (last.op = "HybridKemKeyPair::generate")
    => last.locals.key_bytes.kind = "zero"

\* C26: when a lifecycle operation has returned (normally or with an
\* error), every transient buffer it created (seed, secret array, shared
\* secret, ephemeral bytes) holds zeros only.
C26_NoTransientSecrets ==
    (last.op # "none" /\ last.path \in {"return", "early_return"})
    => \A name \in DOMAIN last.locals : last.locals[name].kind = "zero"

---------------------------------------------------------------------------
(* Properties of SpecKeys: the hybrid key pair and its secrets.            *)

\* C27: encapsulation reads the public components only.  Right after an
\* ML-KEM or a hybrid encapsulate, the outcome is the one the call has on
\* any key pair with the same public fields and other secret fields
\* (classical_secret absent included); it succeeds whenever the public key
\* bytes decode (32 bytes for X25519), whatever the secrets hold;
\* and the key pair is as it was before the call.
C27_EncapsulateUsesPublicOnly ==
    LET n == entropy - Draws(last.trace)
        encapsulate(o) == IF o.family = "Hybrid"
                          THEN HybridKemKeyPair_encapsulate(o, n + 1, n + 2)
                          ELSE MlKemKeyPair_encapsulate(o, n + 1)
        public_ok(o) ==
            IF o.family = "Hybrid"
            THEN /\ o.classical_public.len = 32
                 /\ EncapsulationKey_new_from_slice(
                        o.pqc_keypair.variant, o.pqc_keypair.public_key).ok
            ELSE EncapsulationKey_new_from_slice(o.variant, o.public_key).ok
    IN  last.op \in {"MlKem_encapsulate", "Hybrid_encapsulate"}
        => /\ kp = last.self
           /\ public_ok(kp) => last.res.ok
           /\ \A o \in SameButSecrets(kp) \cup {kp} :
                 /\ encapsulate(o).res.ok = last.res.ok
                 /\ encapsulate(o).res.err = last.res.err
                 /\ last.res.ok => encapsulate(o).res.val = art

C27_Witness ==
    /\ last.op = "Hybrid_encapsulate"
    /\ ~kp.classical_secret.some
    /\ kp.pqc_keypair.secret_key = EmptyBytes
    /\ last.res.ok
    /\ art.type = "HybridEncapsulated"

\* C28: the hybrid decapsulate returns a secret only when both halves
\* succeeded.  A classical secret that is absent or not 32 bytes long, or an
\* ephemeral public key that is not 32 bytes long, gives
\* Err(InvalidKeyMaterial) before any ML-KEM step; otherwise a failure of
\* the ML-KEM decapsulation gives Err(Decapsulation); an error carries no
\* secret, and a secret returned is the KDF of both shared secrets.
C28_BothHalvesOrError ==
    last.op = "Hybrid_decapsulate"
    => LET self == last.self
           pqc == MlKemKeyPair_decapsulate(self.pqc_keypair, last.arg2)
           classical_bad == \/ ~self.classical_secret.some
                            \/ self.classical_secret.val.len # 32
                            \/ last.arg1.len # 32
       IN  /\ classical_bad
              => /\ last.res = Err("InvalidKeyMaterial")
                 /\ \A i \in DOMAIN last.trace :
                       last.trace[i] \notin {"dk_new_from_slice", "ml_kem::decapsulate"}
           /\ (~classical_bad /\ ~pqc.res.ok) => last.res = Err("Decapsulation")
           /\ ~last.res.ok => last.res.val = EmptyBytes
           /\ last.res.ok
              => /\ ~classical_bad /\ pqc.res.ok
                 /\ last.res.val
                      = combine_secrets(
                            diffie_hellman(
                                StaticSecret_from(self.classical_secret.val),
                                last.arg1),
                            pqc.res.val)

C28_Witness ==
    /\ last.op = "Hybrid_decapsulate"
    /\ last.self.classical_secret.some
    /\ last.self.classical_secret.val.len = 31
    /\ last.arg2.len = MlKem_ciphertext_size("MlKem768")
    /\ last.self.pqc_keypair.secret_key.len = MlKemSeedLen
    /\ last.res = Err("InvalidKeyMaterial")

---------------------------------------------------------------------------
(* Error codes (crypto/src/error.rs), TLS configuration (tls/src/config.rs)*)
(* and the gateway (gateway/src).  Text is a sequence of bytes, each       *)
(* written as a one-character string; "\xE9" is a byte that is not         *)
(* visible ASCII.                                                          *)

MaxRoutes == 2

ErrorKinds ==
    {"KeyGeneration", "Encapsulation", "Decapsulation", "Signing", "Verification",
     "InvalidKeyMaterial", "UnsupportedAlgorithm", "Serialization", "Rng"}

\* A slip: the code of a key generation error chosen by its payload.
CryptoError_error_code_by_payload(self) ==
    CASE self.kind = "KeyGeneration" ->
             IF self.payload = <<>> THEN "Internal" ELSE "KeyGenerationFailed"
      [] self.kind = "Encapsulation" -> "EncapsulationFailed"
      [] self.kind = "Decapsulation" -> "DecapsulationFailed"
      [] self.kind = "Signing" -> "SigningFailed"
      [] self.kind = "Verification" -> "VerificationFailed"
      [] self.kind = "InvalidKeyMaterial" -> "InvalidKeyMaterial"
      [] self.kind = "UnsupportedAlgorithm" -> "UnsupportedAlgorithm"
      [] self.kind = "Serialization" -> "Internal"
      [] self.kind = "Rng" -> "Internal"

\* CryptoError::error_code: a match on the variant; the fields are ignored
\* (`{ .. }`, `_`).
CryptoError_error_code(self) ==
    CASE self.kind = "KeyGeneration" -> "KeyGenerationFailed"
      [] self.kind = "Encapsulation" -> "EncapsulationFailed"
      [] self.kind = "Decapsulation" -> "DecapsulationFailed"
      [] self.kind = "Signing" -> "SigningFailed"
      [] self.kind = "Verification" -> "VerificationFailed"
      [] self.kind = "InvalidKeyMaterial" -> "InvalidKeyMaterial"
      [] self.kind = "UnsupportedAlgorithm" -> "UnsupportedAlgorithm"
      [] self.kind = "Serialization" -> "Internal"
      [] self.kind = "Rng" -> "Internal"

\* A slip: the version check made before the algorithm check.
TlsConfig_validate_version_first(self) ==
    [self |-> self,
     res |-> IF self.min_tls_version = "Tls12" /\ self.hybrid_mode
             THEN "IncompatibleVersion"
             ELSE IF self.preferred_algorithms = <<>> THEN "NoAlgorithms"
             ELSE "Ok"]

\* TlsConfig::validate(&self): the outcome, and the configuration as the
\* call leaves it.
TlsConfig_validate(self) ==
    [self |-> self,
     res |-> IF self.preferred_algorithms = <<>> THEN "NoAlgorithms"
             ELSE IF self.min_tls_version = "Tls12" /\ self.hybrid_mode
             THEN "IncompatibleVersion"
             ELSE "Ok"]

TlsConfig_development ==
    [cert_path |-> "certs/dev.pem", key_path |-> "certs/dev-key.pem",
     ca_path |-> "None", preferred_algorithms |-> <<"Hybrid(X25519MlKem768)">>,
     min_tls_version |-> "Tls13", mutual_tls |-> FALSE, hybrid_mode |-> TRUE]

TlsPolicies == {"PqcOnly", "PqcPreferred", "Hybrid", "ClassicalAllowed"}

\* A slip: the configuration returned without being validated.
build_tls_config_unvalidated(policy) ==
    LET base == [TlsConfig_development EXCEPT !.min_tls_version = "Tls13"]
        config ==
            CASE policy = "PqcOnly" ->
                     [base EXCEPT !.preferred_algorithms =
                                      <<"MlKem(MlKem768)", "MlDsa(MlDsa65)">>,
                                  !.hybrid_mode = FALSE]
              [] policy = "PqcPreferred" ->
                     [base EXCEPT !.preferred_algorithms =
                                      <<"MlKem(MlKem768)", "MlKem(MlKem1024)",
                                        "MlDsa(MlDsa65)">>,
                                  !.hybrid_mode = TRUE]
              [] policy = "Hybrid" ->
                     [base EXCEPT !.preferred_algorithms = <<"MlKem(MlKem768)">>,
                                  !.hybrid_mode = TRUE]
              [] policy = "ClassicalAllowed" ->
                     [base EXCEPT !.preferred_algorithms = <<>>,
                                  !.hybrid_mode = FALSE]
    IN  [ok |-> TRUE, err |-> "", config |-> config]

\* build_tls_config: the development configuration with TLS 1.3, the
\* algorithms and hybrid_mode of the policy, then validate.
build_tls_config(policy) ==
    LET base == [TlsConfig_development EXCEPT !.min_tls_version = "Tls13"]
        config ==
            CASE policy = "PqcOnly" ->
                     [base EXCEPT !.preferred_algorithms =
                                      <<"MlKem(MlKem768)", "MlDsa(MlDsa65)">>,
                                  !.hybrid_mode = FALSE]
              [] policy = "PqcPreferred" ->
                     [base EXCEPT !.preferred_algorithms =
                                      <<"MlKem(MlKem768)", "MlKem(MlKem1024)",
                                        "MlDsa(MlDsa65)">>,
                                  !.hybrid_mode = TRUE]
              [] policy = "Hybrid" ->
                     [base EXCEPT !.preferred_algorithms = <<"MlKem(MlKem768)">>,
                                  !.hybrid_mode = TRUE]
              [] policy = "ClassicalAllowed" ->
                     [base EXCEPT !.preferred_algorithms = <<>>,
                                  !.hybrid_mode = FALSE]
    IN  IF TlsConfig_validate(config).res # "Ok"
        THEN [ok |-> FALSE, err |-> "ConfigError", config |-> <<>>]
        ELSE [ok |-> TRUE, err |-> "", config |-> config]

\* str::starts_with and str::contains.
starts_with(s, prefix) ==
    Len(prefix) <= Len(s) /\ SubSeq(s, 1, Len(prefix)) = prefix

contains(s, pattern) ==
    \E i \in 0..(Len(s) - Len(pattern)) : SubSeq(s, i + 1, i + Len(pattern)) = pattern

\* A slip: the longest matching prefix chosen, whatever the priorities.
ProxyService_find_route_longest_prefix(routes, path) ==
    LET matching == {i \in DOMAIN routes :
                        /\ starts_with(path, routes[i].path_prefix)
                        /\ routes[i].upstream.is_healthy}
    IN  IF matching = {} THEN [some |-> FALSE, val |-> <<>>]
        ELSE [some |-> TRUE,
              val |-> routes[CHOOSE i \in matching :
                                \A j \in matching :
                                   \/ Len(routes[j].path_prefix)
                                        < Len(routes[i].path_prefix)
                                   \/ /\ Len(routes[j].path_prefix)
                                           = Len(routes[i].path_prefix)
                                      /\ j <= i]]

\* ProxyService::find_route: filter, then max_by_key(priority), which
\* returns the last of several maximal elements.
ProxyService_find_route(routes, path) ==
    LET matching == {i \in DOMAIN routes :
                        /\ starts_with(path, routes[i].path_prefix)
                        /\ routes[i].upstream.is_healthy}
    IN  IF matching = {} THEN [some |-> FALSE, val |-> <<>>]
        ELSE [some |-> TRUE,
              val |-> routes[CHOOSE i \in matching :
                                \A j \in matching :
                                   \/ routes[j].priority < routes[i].priority
                                   \/ /\ routes[j].priority = routes[i].priority
                                      /\ j <= i]]

\* classify_cipher_suite: any of the five indicators occurs in the text.
classify_cipher_suite(cipher_suite) ==
    LET pqc_indicators == {<<"M", "L", "-", "K", "E", "M">>,
                           <<"M", "L", "-", "D", "S", "A">>,
                           <<"S", "L", "H", "-", "D", "S", "A">>,
                           <<"K", "Y", "B", "E", "R">>,
                           <<"D", "I", "L", "I", "T", "H", "I", "U", "M">>}
    IN  \E p \in pqc_indicators : contains(cipher_suite, p)

\* HeaderValue::to_str: the text, if every byte is visible ASCII.
HeaderValue_to_str(v) ==
    IF \E i \in DOMAIN v : v[i] = "\\xE9" THEN [some |-> FALSE, val |-> <<>>]
    ELSE [some |-> TRUE, val |-> v]

\* A slip: the indicators looked for in the raw bytes of the header.
pqc_enforcement_middleware_raw_header(policy, req, next) ==
    LET is_pqc == req.cipher_header.some /\ classify_cipher_suite(req.cipher_header.val)
    IN  IF policy = "PqcOnly" /\ ~is_pqc /\ req.path # "/health"
        THEN [response |-> [status |-> 403,
                            body |-> "PQC-only policy: classical cipher suites not allowed"],
              next_runs |-> 0]
        ELSE [response |-> next, next_runs |-> 1]

\* pqc_enforcement_middleware: req is the request (its path and its
\* x-tls-cipher-suite header, if any), next the response the downstream
\* handler gives when it is run.
pqc_enforcement_middleware(policy, req, next) ==
    LET text == IF req.cipher_header.some
                THEN HeaderValue_to_str(req.cipher_header.val)
                ELSE [some |-> FALSE, val |-> <<>>]
        cipher_suite == IF text.some THEN text.val ELSE <<"u", "n", "k", "n", "o", "w", "n">>
        is_pqc == classify_cipher_suite(cipher_suite)
    IN  IF policy = "PqcOnly" /\ ~is_pqc /\ req.path # "/health"
        THEN [response |-> [status |-> 403,
                            body |-> "PQC-only policy: classical cipher suites not allowed"],
              next_runs |-> 0]
        ELSE [response |-> next, next_runs |-> 1]

\* The header values a client may send: suite names with and without an
\* indicator, in other case, cut short, empty, and two with a byte that is
\* not visible ASCII.
CipherHeaders ==
    {[some |-> FALSE, val |-> <<>>]}
    \cup {[some |-> TRUE, val |-> v] : v \in
            {<<"T", "L", "S", "_", "M", "L", "-", "K", "E", "M">>,
             <<"T", "L", "S", "_", "A", "E", "S">>,
             <<"K", "Y", "B", "E", "R">>,
             <<"X", "_", "D", "I", "L", "I", "T", "H", "I", "U", "M">>,
             <<"S", "L", "H", "-", "D", "S", "A">>,
             <<"M", "L", "-", "D", "S", "A">>,
             <<"m", "l", "-", "k", "e", "m">>,
             <<"M", "L", "-", "K", "E">>,
             <<>>,
             <<"M", "L", "-", "K", "E", "M", "\\xE9">>,
             <<"A", "E", "S", "\\xE9">>}}

RequestPaths == {"/health", "/health/", "/gateway/stats", "/"}

Responses == {[status |-> 200, body |-> "ok"], [status |-> 404, body |-> ""],
              [status |-> 403, body |-> "upstream"]}

RoutePrefixes == {<<>>, <<"/", "a">>, <<"/", "a", "/", "b">>}

RoutePaths == {<<>>, <<"/", "a">>, <<"/", "a", "b">>, <<"/", "a", "/", "b">>, <<"/", "c">>}

AllRoutes ==
    {[path_prefix |-> p, upstream |-> [name |-> "svc", is_healthy |-> h],
      strip_prefix |-> FALSE, priority |-> n] :
        p \in RoutePrefixes, h \in BOOLEAN, n \in {-1, 2}}

RouteLists == UNION {[1..n -> AllRoutes] : n \in 0..MaxRoutes}

TlsConfigs ==
    {[TlsConfig_development EXCEPT !.preferred_algorithms = a,
                                   !.min_tls_version = v, !.hybrid_mode = h,
                                   !.mutual_tls = m] :
        a \in {<<>>, <<"MlKem(MlKem768)">>,
               <<"Hybrid(X25519MlKem768)", "MlKem(MlKem768)">>},
        v \in {"Tls12", "Tls13"}, h \in BOOLEAN, m \in BOOLEAN}

CryptoErrors ==
    {[kind |-> k, payload |-> p] :
        k \in ErrorKinds, p \in {<<>>, <<"ML-KEM-768", "bad seed">>, <<"x">>}}

\* The functions below are pure: each behaviour is one call, made in the
\* initial state, and the call is all that last records.
ErrorCode ==
    /\ last = NoCall
    /\ \E e \in CryptoErrors :
          last' = [op |-> "error_code", self |-> e,
                   code |-> CryptoError_error_code(e)]
    /\ UNCHANGED <<entropy, kp, kpFrom, genKp, art, artBy, artMsg, wire, wireOf,
                   aux>>

Validate ==
    /\ last = NoCall
    /\ \E c \in TlsConfigs :
          last' = [op |-> "validate", self |-> c, ret |-> TlsConfig_validate(c)]
    /\ UNCHANGED <<entropy, kp, kpFrom, genKp, art, artBy, artMsg, wire, wireOf,
                   aux>>

BuildTlsConfig ==
    /\ last = NoCall
    /\ \E policy \in TlsPolicies :
          last' = [op |-> "build_tls_config", policy |-> policy,
                   ret |-> build_tls_config(policy)]
    /\ UNCHANGED <<entropy, kp, kpFrom, genKp, art, artBy, artMsg, wire, wireOf,
                   aux>>

FindRoute ==
    /\ last = NoCall
    /\ \E routes \in RouteLists, path \in RoutePaths :
          last' = [op |-> "find_route", routes |-> routes, path |-> path,
                   ret |-> ProxyService_find_route(routes, path)]
    /\ UNCHANGED <<entropy, kp, kpFrom, genKp, art, artBy, artMsg, wire, wireOf,
                   aux>>

Middleware ==
    /\ last = NoCall
    /\ \E policy \in TlsPolicies, h \in CipherHeaders, path \in RequestPaths,
          next \in Responses :
          last' = [op |-> "pqc_enforcement_middleware", policy |-> policy,
                   req |-> [path |-> path, cipher_header |-> h], next |-> next,
                   ret |-> pqc_enforcement_middleware(
                               policy, [path |-> path, cipher_header |-> h],
                               next)]
    /\ UNCHANGED <<entropy, kp, kpFrom, genKp, art, artBy, artMsg, wire, wireOf,
                   aux>>

NextGateway ==
    \/ ErrorCode
    \/ Validate
    \/ BuildTlsConfig
    \/ FindRoute
    \/ Middleware

SpecGateway == Init /\ [][NextGateway]_vars

---------------------------------------------------------------------------
(* Properties of SpecGateway.                                              *)

\* The platform-wide codes (types/src/error_code.rs).
ErrorCodes ==
    {"Internal", "InvalidArgument", "NotFound", "AlreadyExists",
     "PermissionDenied", "Unauthenticated", "UnsupportedAlgorithm",
     "KeyGenerationFailed", "EncapsulationFailed", "DecapsulationFailed",
     "SigningFailed", "VerificationFailed", "InvalidKeyMaterial", "KeyExpired",
     "KeyRevoked", "TlsHandshakeFailed", "CertificateInvalid",
     "CertificateExpired", "DeviceNotProvisioned", "DeviceOffline",
     "FirmwareIncompatible", "AssessmentFailed", "ScanTimeout"}

\* C22: error_code is a total function of the error kind: every one of the
\* nine kinds has a code, one of the platform-wide codes, and two errors
\* of one kind have the same code whatever their message or payload.
C22_ErrorCodeOfKind ==
    last.op = "error_code"
    => /\ last.self.kind \in ErrorKinds
       /\ last.code \in ErrorCodes
       /\ \A e \in CryptoErrors :
             e.kind = last.self.kind => CryptoError_error_code(e) = last.code
       /\ \A k \in ErrorKinds :
             CryptoError_error_code([kind |-> k, payload |-> <<>>]) \in ErrorCodes

C22_Witness ==
    /\ last.op = "error_code"
    /\ last.self.kind = "KeyGeneration"
    /\ last.self.payload # <<>>
    /\ last.code = "KeyGenerationFailed"

\* C24: validate returns Err(NoAlgorithms) exactly when preferred_algorithms
\* is empty, otherwise Err(IncompatibleVersion) exactly when the minimum
\* version is TLS 1.2 and hybrid_mode is set, otherwise Ok; the empty list
\* is reported first; the configuration is left as it was.
C24_ValidateOutcome ==
    last.op = "validate"
    => LET c == last.self
           empty == c.preferred_algorithms = <<>>
           tls12_hybrid == c.min_tls_version = "Tls12" /\ c.hybrid_mode
       IN  /\ last.ret.res = "NoAlgorithms" <=> empty
           /\ last.ret.res = "IncompatibleVersion" <=> (~empty /\ tls12_hybrid)
           /\ last.ret.res = "Ok" <=> (~empty /\ ~tls12_hybrid)
           /\ last.ret.self = c

C24_Witness ==
    /\ last.op = "validate"
    /\ last.self.preferred_algorithms = <<>>
    /\ last.self.min_tls_version = "Tls12"
    /\ last.self.hybrid_mode
    /\ last.ret.res = "NoAlgorithms"

\* C25: find_route returns None exactly when no route is healthy and has a
\* path_prefix the path starts with; otherwise it returns one of the
\* routes that are, of the highest priority among them, whatever the
\* lengths of the prefixes.
C25_FindRoute ==
    last.op = "find_route"
    => LET routes == last.routes
           eligible == {i \in DOMAIN routes :
                           /\ routes[i].upstream.is_healthy
                           /\ starts_with(last.path, routes[i].path_prefix)}
       IN  /\ ~last.ret.some <=> eligible = {}
           /\ last.ret.some
              => /\ \E i \in eligible : routes[i] = last.ret.val
                 /\ last.ret.val.upstream.is_healthy
                 /\ \A j \in eligible :
                       routes[j].priority <= last.ret.val.priority

C25_Witness ==
    /\ last.op = "find_route"
    /\ Len(last.routes) = 2
    /\ last.routes[1].path_prefix = <<"/", "a", "/", "b">>
    /\ last.routes[1].upstream.is_healthy
    /\ last.routes[1].priority = -1
    /\ last.routes[2].path_prefix = <<"/", "a">>
    /\ last.routes[2].upstream.is_healthy
    /\ last.routes[2].priority = 2
    /\ last.path = <<"/", "a", "/", "b">>
    /\ last.ret.some
    /\ last.ret.val = last.routes[2]

\* C29: a configuration build_tls_config returns passes validate, has TLS
\* 1.3 as its minimum version and a non-empty algorithm list; the call
\* succeeds for PqcOnly, PqcPreferred and Hybrid and fails with ConfigError
\* for ClassicalAllowed.
C29_BuiltConfigIsValid ==
    last.op = "build_tls_config"
    => /\ last.ret.ok
          => /\ TlsConfig_validate(last.ret.config).res = "Ok"
             /\ last.ret.config.min_tls_version = "Tls13"
             /\ last.ret.config.preferred_algorithms # <<>>
       /\ last.policy \in {"PqcOnly", "PqcPreferred", "Hybrid"} => last.ret.ok
       /\ last.policy = "ClassicalAllowed"
          => ~last.ret.ok /\ last.ret.err = "ConfigError"

C29_Witness ==
    /\ last.op = "build_tls_config"
    /\ last.policy = "ClassicalAllowed"
    /\ ~last.ret.ok

\* The request is answered 403 and the handler is not run / the handler is
\* run once and its response is what the middleware returns.
Refused(call) == call.ret.response.status = 403 /\ call.ret.next_runs = 0
PassedOn(call) == call.ret.response = call.next /\ call.ret.next_runs = 1

\* C30 as stated: under PqcOnly a request whose x-tls-cipher-suite header
\* is absent or holds none of the indicators, and whose path is not
\* /health, is refused; every other request is passed on.
C30_Original ==
    last.op = "pqc_enforcement_middleware"
    => LET h == last.req.cipher_header
           no_indicator == ~h.some \/ ~classify_cipher_suite(h.val)
       IN  IF last.policy = "PqcOnly" /\ no_indicator /\ last.req.path # "/health"
           THEN Refused(last)
           ELSE PassedOn(last)

\* C30: under PqcOnly a request whose x-tls-cipher-suite header is absent,
\* is not visible ASCII text or holds none of the indicators, and whose
\* path is not /health, is refused and the handler is not run; every other
\* request is passed on: the handler is run once and its response returned
\* as it is.
C30_PqcOnlyEnforced ==
    last.op = "pqc_enforcement_middleware"
    => LET h == last.req.cipher_header
           unreadable == h.some /\ ~HeaderValue_to_str(h.val).some
           no_indicator == ~h.some \/ unreadable \/ ~classify_cipher_suite(h.val)
       IN  IF last.policy = "PqcOnly" /\ no_indicator /\ last.req.path # "/health"
           THEN Refused(last)
           ELSE PassedOn(last)

C30_Witness ==
    /\ last.op = "pqc_enforcement_middleware"
    /\ last.policy = "PqcOnly"
    /\ last.req.cipher_header.some
    /\ ~HeaderValue_to_str(last.req.cipher_header.val).some
    /\ classify_cipher_suite(last.req.cipher_header.val)
    /\ last.req.path = "/gateway/stats"
    /\ Refused(last)

---------------------------------------------------------------------------
(* Concurrent calls.  PqcRng is a unit struct without fields and the crate *)
(* has no static: the only buffers random bytes are written to are the     *)
(* locals of the call that asks for them (`let mut buf = [0u8; N]`,        *)
(* `let mut seed`, `let mut key_bytes`, `let mut ephemeral_bytes`).  A     *)
(* call is three steps, which may interleave with those of other threads:  *)
(* the buffer is made, getrandom fills it, the call reads it.              *)

MaxThreads == 2

Threads == 1..MaxThreads

\* A slip: one static buffer used by every call.
local_buffer_static(memory) == 1

\* `let mut buf = [0u8; N]`: a new slot in the frame of the call, at an
\* address no buffer made before has.
local_buffer(memory) == Len(memory) + 1

Idle == [pc |-> "idle", op |-> "", buf |-> 0, drew |-> 0, out |-> EmptyBytes]

InitThreads ==
    /\ osrng = "ok"
    /\ proc = "running"
    /\ panicStrategy = "unwind"
    /\ callerRng = 0
    /\ hist = <<>>
    /\ heap = <<>>
    /\ exit = ""
    /\ thread = [t \in Threads |-> Idle]
    /\ mem = <<>>
    /\ entropy = 0
    /\ kp = NoKeyPair
    /\ kpFrom = "none"
    /\ genKp = NoKeyPair
    /\ art = NoArtifact
    /\ artBy = NoKeyPair
    /\ artMsg = 0
    /\ last = NoCall
    /\ wire = NoWire
    /\ wireOf = NoKeyPair

\* A thread enters generate, encapsulate or sign on a key pair of its own:
\* the local buffer is made, all zeros.
ThreadCall(t) ==
    /\ thread[t].pc = "idle"
    /\ Len(mem) < MaxDraws
    /\ \E op \in {"generate", "encapsulate", "sign"} :
          LET buf == local_buffer(mem)
          IN  /\ mem' = IF buf > Len(mem) THEN Append(mem, ZeroBytes(32))
                        ELSE [mem EXCEPT ![buf] = ZeroBytes(32)]
              /\ thread' = [thread EXCEPT ![t] =
                               [pc |-> "fill", op |-> op, buf |-> buf,
                                drew |-> 0, out |-> EmptyBytes]]
    /\ UNCHANGED <<entropy, kp, kpFrom, genKp, art, artBy, artMsg, last, wire,
                   wireOf, osrng, proc, panicStrategy, callerRng, hist, heap,
                   exit>>

\* getrandom::fill(&mut buf): the next bytes of the OS source are written
\* to the buffer passed.
ThreadFill(t) ==
    /\ thread[t].pc = "fill"
    /\ mem' = [mem EXCEPT ![thread[t].buf] = RandomBytes(32, Draw(1))]
    /\ entropy' = entropy + 1
    /\ thread' = [thread EXCEPT ![t].pc = "read", ![t].drew = Draw(1)]
    /\ UNCHANGED <<kp, kpFrom, genKp, art, artBy, artMsg, last, wire, wireOf,
                   osrng, proc, panicStrategy, callerRng, hist, heap, exit>>

\* The call reads its buffer (StaticSecret::from(buf), from_seed(&seed),
\* u64::from_le_bytes(buf)) and returns.
ThreadRead(t) ==
    /\ thread[t].pc = "read"
    /\ thread' = [thread EXCEPT ![t].pc = "idle", ![t].out = mem[thread[t].buf]]
    /\ UNCHANGED <<entropy, kp, kpFrom, genKp, art, artBy, artMsg, last, wire,
                   wireOf, osrng, proc, panicStrategy, callerRng, hist, heap,
                   exit, mem>>

NextThreads ==
    \/ \E t \in Threads : ThreadCall(t)
    \/ \E t \in Threads : ThreadFill(t)
    \/ \E t \in Threads : ThreadRead(t)

SpecThreads == InitThreads /\ [][NextThreads]_vars

\* C23: under any interleaving of concurrent calls, a call fills and reads
\* a buffer of its own: two calls in progress never have the same buffer,
\* what a call has read is the draw the entropy source served to it, and no
\* two threads have read the same random bytes.
C23_NoSharedRandomness ==
    /\ \A t, u \in Threads :
          (t # u /\ thread[t].pc # "idle" /\ thread[u].pc # "idle")
          => thread[t].buf # thread[u].buf
    /\ \A t \in Threads :
          /\ thread[t].pc = "read"
             => mem[thread[t].buf] = RandomBytes(32, thread[t].drew)
          /\ thread[t].drew # 0 /\ thread[t].pc = "idle"
             => thread[t].out = RandomBytes(32, thread[t].drew)
    /\ \A t, u \in Threads :
          (t # u /\ thread[t].out # EmptyBytes) => thread[t].out # thread[u].out

C23_Witness ==
    /\ thread[1].op = "encapsulate" /\ thread[1].pc = "idle"
    /\ thread[2].op = "generate" /\ thread[2].pc = "idle"
    /\ thread[1].drew = 2 /\ thread[2].drew = 1
    /\ thread[1].buf = 1 /\ thread[2].buf = 2
    /\ thread[1].out = RandomBytes(32, 2)
    /\ thread[2].out = RandomBytes(32, 1)

=============================================================================
